---- MODULE Spec2Model ----
(***************************************************************************)
(* A model of the Cflat AST -> LIR lowerer (lowerer.cpp, lir.hpp, main.cpp) *)
(* as a state machine.  The C++ call stack of the statement visitors is     *)
(* explicit (variable stack); expression and place lowering, the CFG        *)
(* builder and the serializer are operators applied by the actions.         *)
(* The AST is read lazily: each visitor action draws the node it visits     *)
(* from a bounded menu of well-typed nodes.                                 *)
(***************************************************************************)
EXTENDS Integers, Sequences, FiniteSets, TLC

\* ------------------------------------------------------------------ bounds
\* statement nodes of the whole program, control-flow menu
MaxStmts == 3
\* statement nodes of the whole program, expression menu
MaxStmtsE == 2
\* statement nodes of the whole program, menu of undeclared names
MaxStmtsU == 2
\* calls of Lowerer::lower a caller makes on one AST
MaxCalls == 2
\* nesting depth of if / while statements
MaxNest == 2
\* largest numeric suffix of a generated name the name table spells
MaxNum == 20
\* statement nodes of the whole program, menu of integer literals
MaxStmtsN == 2
\* width of int
IntBits == 32
IntMax == (2^(IntBits - 2) - 1) + 2^(IntBits - 2)
IntMin == -IntMax - 1
\* the literals of the integer menu: the ends and the middle of the range of int
Int32Samples == {IntMin, IntMin + 1, -12, -1, 0, 1, 12, IntMax}
\* the values a build can compute for -n at n = INT_MIN: the two's-complement negation
\* wraps to INT_MIN; an optimiser that assumes no overflow may leave any other int
OverflowOutcomes == {IntMin, 0, IntMax}

VARIABLES
    ast,                 \* the AST program handed to Lowerer::lower (shell: structs, externs, functions)
    m_lir_prog,          \* LIR::Program under construction
    m_current_fun,       \* name of the function m_current_fun points to ("" for nullptr)
    m_tv,                \* the translation vector
    m_last_result_id,
    m_label_counter,
    m_tmp_counter,
    m_const_insert_pos,
    m_loop_hdr_stack,
    m_loop_end_stack,
    stack,               \* activations of visit(Program/FunctionDef/Stmts/If/While), innermost last
    pc,                  \* position of main: "start", "lowering", "throwing", "lowered", "done", "failed"
    out,                 \* lines written to standard output
    fuel,                \* statement nodes the input may still contain
    menu,                \* which bounded set of AST nodes the input is drawn from
    overflow,            \* the int this build computes for -n at n = INT_MIN (undefined behaviour)
    exc,                 \* what() of the exception in flight or caught by main ("" if none)
    driver,              \* locals of a caller of Lowerer::lower: calls made, whether it rebuilt
                         \* the AST from the reordered input, the input program, the LIR
                         \* program it kept from the call before the rebuild
    node                 \* the AST node visited by the last visitor action, with the operands it lowered

vars == <<ast, m_lir_prog, m_current_fun, m_tv, m_last_result_id, m_label_counter,
          m_tmp_counter, m_const_insert_pos, m_loop_hdr_stack, m_loop_end_stack,
          stack, pc, out, fuel, menu, overflow, exc, driver, node>>

\* ------------------------------------------------------------ small helpers
Last(s) == s[Len(s)]
Front(s) == SubSeq(s, 1, Len(s) - 1)
Reverse(s) == [i \in 1..Len(s) |-> s[Len(s) + 1 - i]]
Range(s) == {s[i] : i \in 1..Len(s)}
EmptyMap == <<>>
Put(m, k, v) == (k :> v) @@ m

\* ------------------------------------------------------------------ types
\* AST types (ast.hpp) and LIR types (lir.hpp) are different classes
AInt == <<"AST::IntType">>
ANil == <<"AST::NilType">>
AStruct(n) == <<"AST::StructType", n>>
APtr(t) == <<"AST::PtrType", t>>
AArray(t) == <<"AST::ArrayType", t>>
AFn(ps, r) == <<"AST::FnType", ps, r>>

IntType == <<"Int">>
NilType == <<"Nil">>
StructType(id) == <<"Struct", id>>
PtrType(e) == <<"Ptr", e>>
ArrayType(e) == <<"Array", e>>
FnType(ps, r) == <<"Fn", ps, r>>

\* the value a throwing helper yields to its caller
Thrown == <<"throw">>

RECURSIVE convert_type(_)
RECURSIVE convert_types(_)
convert_types(ts) ==
    IF ts = <<>> THEN <<>> ELSE <<convert_type(Head(ts))>> \o convert_types(Tail(ts))

convert_type(t) ==
    CASE t[1] = "AST::IntType" -> IntType
      [] t[1] = "AST::NilType" -> NilType
      [] t[1] = "AST::StructType" -> StructType(t[2])
      [] t[1] = "AST::PtrType" -> PtrType(convert_type(t[2]))
      [] t[1] = "AST::ArrayType" -> ArrayType(convert_type(t[2]))
      [] t[1] = "AST::FnType" -> FnType(convert_types(t[2]), convert_type(t[3]))
      [] OTHER -> Thrown

\* --------------------------------------------------- LIR instructions (lir.hpp)
\* an optional is a sequence of length 0 or 1
None == <<>>
Some(v) == <<v>>

TvLabel(name) == <<"Label", name>>
Const(lhs, n) == <<"Const", lhs, n>>
Copy(lhs, op) == <<"Copy", lhs, op>>
Arith(lhs, aop, l, r) == <<"Arith", lhs, aop, l, r>>
Cmp(lhs, rop, l, r) == <<"Cmp", lhs, rop, l, r>>
Load(lhs, src) == <<"Load", lhs, src>>
Store(dst, op) == <<"Store", dst, op>>
Gfp(lhs, src, sid, field) == <<"Gfp", lhs, src, sid, field>>
Gep(lhs, src, idx, checked) == <<"Gep", lhs, src, idx, checked>>
AllocSingle(lhs, typ) == <<"AllocSingle", lhs, typ>>
AllocArray(lhs, amt, typ) == <<"AllocArray", lhs, amt, typ>>
Call(lhs, callee, args) == <<"Call", lhs, callee, args>>
Jump(target) == <<"Jump", target>>
Branch(guard, tt, ff) == <<"Branch", guard, tt, ff>>
Ret(val) == <<"Ret", val>>
Monostate == <<"monostate">>

InstKinds == {"Const", "Copy", "Arith", "Cmp", "Load", "Store", "Gfp", "Gep",
              "AllocSingle", "AllocArray", "Call"}
TermKinds == {"Jump", "Branch", "Ret"}
IsLabel(it) == it[1] = "Label"
IsInst(it) == it[1] \in InstKinds
IsTerm(it) == it[1] \in TermKinds

\* ------------------------------------------------------------- AST nodes
Num(n) == <<"Num", n>>
NilExp == <<"NilExp">>
Val(place) == <<"Val", place>>
Select(g, tt, ff) == <<"Select", g, tt, ff>>
UnOp(op, e) == <<"UnOp", op, e>>
BinOp(op, l, r) == <<"BinOp", op, l, r>>
NewSingle(t) == <<"NewSingle", t>>
NewArray(t, e) == <<"NewArray", t, e>>
FunCall(callee, args) == <<"FunCall", callee, args>>
CallExp(fc) == <<"CallExp", fc>>
Id(name) == <<"Id", name>>
Deref(e) == <<"Deref", e>>
ArrayAccess(arr, idx) == <<"ArrayAccess", arr, idx>>
FieldAccess(ptr, fld) == <<"FieldAccess", ptr, fld>>
Assign(place, e) == <<"Assign", place, e>>
CallStmt(fc) == <<"CallStmt", fc>>
Return(e) == <<"Return", e>>
If(g, tt, ff) == <<"If", g, tt, ff>>
While(g, body) == <<"While", g, body>>
Break == <<"Break">>
Continue == <<"Continue">>
Var(x) == Val(Id(x))
\* a std::unique_ptr that holds nullptr (its pointee was moved out)
Null == <<"null">>
\* marks the undefined behaviour of calling accept through a null pointer
NullDeref == "accept called through a null pointer"

\* ------------------------------------------------------ names as std::string
\* std::map iterates, and std::list::sort orders, by operator< of std::string:
\* byte-wise lexicographic.  Spell gives the bytes of every word the lowerer
\* builds names from; NameTable the bytes of every name.
Spell ==
    "x" :> <<120>> @@
    "y" :> <<121>> @@
    "p" :> <<112>> @@
    "s" :> <<115>> @@
    "a" :> <<97>> @@
    "fp" :> <<102, 112>> @@
    "u" :> <<117>> @@
    "v" :> <<118>> @@
    "main" :> <<109, 97, 105, 110>> @@
    "foo" :> <<102, 111, 111>> @@
    "ext" :> <<101, 120, 116>> @@
    "S" :> <<83>> @@
    "T" :> <<84>> @@
    "ext2" :> <<101, 120, 116, 50>> @@
    "f" :> <<102>> @@
    "g" :> <<103>> @@
    "entry" :> <<101, 110, 116, 114, 121>> @@
    "__NULL" :> <<95, 95, 78, 85, 76, 76>> @@
    "_tmp" :> <<95, 116, 109, 112>> @@
    "_inner" :> <<95, 105, 110, 110, 101, 114>> @@
    "_const_" :> <<95, 99, 111, 110, 115, 116, 95>> @@
    "_const_n" :> <<95, 99, 111, 110, 115, 116, 95, 110>> @@
    "if_true" :> <<105, 102, 95, 116, 114, 117, 101>> @@
    "if_false" :> <<105, 102, 95, 102, 97, 108, 115, 101>> @@
    "if_end" :> <<105, 102, 95, 101, 110, 100>> @@
    "loop_hdr" :> <<108, 111, 111, 112, 95, 104, 100, 114>> @@
    "loop_body" :> <<108, 111, 111, 112, 95, 98, 111, 100, 121>> @@
    "loop_end" :> <<108, 111, 111, 112, 95, 101, 110, 100>> @@
    "and_true" :> <<97, 110, 100, 95, 116, 114, 117, 101>> @@
    "and_false" :> <<97, 110, 100, 95, 102, 97, 108, 115, 101>> @@
    "and_end" :> <<97, 110, 100, 95, 101, 110, 100>> @@
    "or_false" :> <<111, 114, 95, 102, 97, 108, 115, 101>> @@
    "or_end" :> <<111, 114, 95, 101, 110, 100>> @@
    "_entry" :> <<95, 101, 110, 116, 114, 121>>

UserNames == {"x", "y", "p", "s", "a", "fp", "u", "v", "main", "foo", "ext", "ext2", "S", "T", "f", "g", "entry", "__NULL"}
Stems == {"_tmp", "_inner", "_const_", "_const_n", "if_true", "if_false", "if_end", "loop_hdr", "loop_body", "loop_end", "and_true", "and_false", "and_end", "or_false", "or_end"}
FunNames == {"main", "foo"}

\* the bytes of std::to_string(n), n >= 0
RECURSIVE Digits(_)
Digits(n) == IF n < 10 THEN <<48 + n>> ELSE Digits(n \div 10) \o <<48 + (n % 10)>>

\* the bytes of std::to_string(n) for an int n
IntBytes(n) ==
    IF n >= 0 THEN Digits(n)
    ELSE IF n = IntMin THEN <<45>> \o Digits(IntMax \div 10) \o <<48 + (IntMax % 10) + 1>>
    ELSE <<45>> \o Digits(-n)
\* the ints const_var is called with on the integer menu, and the ints it hands to_string
LiteralValues ==
    Int32Samples \cup {-n : n \in Int32Samples \ {IntMin}} \cup OverflowOutcomes
NegatedValues == {-n : n \in {v \in LiteralValues : v < 0 /\ v # IntMin}} \cup OverflowOutcomes

NamePairs ==
    {<<w, Spell[w]>> : w \in UserNames}
    \cup {<<st \o ToString(n), Spell[st] \o Digits(n)>> : st \in Stems, n \in 0..MaxNum}
    \cup {<<"_const_" \o ToString(n), Spell["_const_"] \o IntBytes(n)>> : n \in {v \in LiteralValues : v >= 0}}
    \cup {<<"_const_n" \o ToString(n), Spell["_const_n"] \o IntBytes(n)>> : n \in NegatedValues}
    \cup {<<fn \o "_entry", Spell[fn] \o Spell["_entry"]>> : fn \in FunNames}

NameTable == [nm \in {pr[1] : pr \in NamePairs} |-> (CHOOSE pr \in NamePairs : pr[1] = nm)[2]]

RECURSIVE BytesLess(_, _)
BytesLess(a, b) ==
    IF b = <<>> THEN FALSE
    ELSE IF a = <<>> THEN TRUE
    ELSE IF a[1] # b[1] THEN a[1] < b[1]
    ELSE BytesLess(Tail(a), Tail(b))

\* std::string operator<
StrLess(a, b) == BytesLess(NameTable[a], NameTable[b])

\* the keys of a std::map in iteration order
RECURSIVE SortedKeys(_)
SortedKeys(S) ==
    IF S = {} THEN <<>>
    ELSE LET m == CHOOSE k \in S : \A o \in S \ {k} : StrLess(k, o)
         IN <<m>> \o SortedKeys(S \ {m})

\* std::list::sort of a list of strings
RECURSIVE ListSort(_)
ListSort(l) ==
    IF l = <<>> THEN <<>>
    ELSE LET i == CHOOSE i \in 1..Len(l) : \A j \in 1..Len(l) : ~StrLess(l[j], l[i])
         IN <<l[i]>> \o ListSort(SubSeq(l, 1, i - 1) \o SubSeq(l, i + 1, Len(l)))


\* ------------------------------------------------- lowerer helper functions
\* The lowerer's per-function registers as one record L:
\*   tv, locals (m_current_fun->locals), lc (m_label_counter), tc (m_tmp_counter),
\*   cip (m_const_insert_pos), res (m_last_result_id),
\*   ret (value returned by the helper called last), err (what() of a thrown exception, "" if none)
Emit(L, item) == IF L.err # "" THEN L ELSE [L EXCEPT !.tv = Append(@, item)]
Throw(L, msg) == IF L.err # "" THEN L ELSE [L EXCEPT !.err = msg]
SetRes(L, v) == IF L.err # "" THEN L ELSE [L EXCEPT !.res = v]

\* faulty variant of fresh_inner_var: m_tmp_counter is read but not advanced
fresh_inner_var_stale(L, type) ==
    IF L.err # "" THEN L
    ELSE LET name == "_inner" \o ToString(L.tc)
         IN [L EXCEPT !.locals = Put(@, name, type), !.ret = name]

fresh_inner_var(L, type) ==
    IF L.err # "" THEN L
    ELSE LET name == "_inner" \o ToString(L.tc)
         IN [L EXCEPT !.tc = @ + 1, !.locals = Put(@, name, type), !.ret = name]

\* faulty variant of fresh_non_inner_var: the name is not inserted into locals
fresh_non_inner_var_unregistered(L, type) ==
    IF L.err # "" THEN L
    ELSE [L EXCEPT !.tc = @ + 1, !.ret = "_tmp" \o ToString(L.tc)]

fresh_non_inner_var(L, type) ==
    IF L.err # "" THEN L
    ELSE LET name == "_tmp" \o ToString(L.tc)
         IN [L EXCEPT !.tc = @ + 1, !.locals = Put(@, name, type), !.ret = name]

\* faulty variant of release: the released temporaries are erased from locals
release_erasing(L, vs) ==
    IF L.err # "" THEN L
    ELSE LET gone == Range(vs) \cap ({"_tmp" \o ToString(k) : k \in 0..MaxNum}
                                      \cup {"_inner" \o ToString(k) : k \in 0..MaxNum})
         IN [L EXCEPT !.locals = [v \in DOMAIN @ \ gone |-> @[v]]]

release(L, vs) == L

InsertAt(s, pos, item) == SubSeq(s, 1, pos) \o <<item>> \o SubSeq(s, pos + 1, Len(s))

\* the int expression -n; at n = INT_MIN the negation overflows, which is undefined
Negate(n) == IF n = IntMin THEN overflow ELSE -n

\* faulty variant of const_var: the Const is inserted directly after the entry label and
\* m_const_insert_pos is not advanced
const_var_front(L, n) ==
    IF L.err # "" THEN L
    ELSE LET name == "_const_" \o (IF n < 0 THEN "n" \o ToString(Negate(n)) ELSE ToString(n))
         IN IF name \notin DOMAIN L.locals
            THEN [L EXCEPT !.locals = Put(@, name, IntType),
                           !.tv = InsertAt(@, 1, Const(name, n)),
                           !.ret = name]
            ELSE [L EXCEPT !.ret = name]

\* faulty variant of const_var: the Const is appended to tv instead of inserted at m_const_insert_pos
const_var_appended(L, n) ==
    IF L.err # "" THEN L
    ELSE LET name == "_const_" \o (IF n < 0 THEN "n" \o ToString(Negate(n)) ELSE ToString(n))
         IN IF name \notin DOMAIN L.locals
            THEN [L EXCEPT !.locals = Put(@, name, IntType),
                           !.tv = Append(@, Const(name, n)),
                           !.ret = name]
            ELSE [L EXCEPT !.ret = name]

const_var(L, n) ==
    IF L.err # "" THEN L
    ELSE LET name == "_const_" \o (IF n < 0 THEN "n" \o ToString(Negate(n)) ELSE ToString(n))
         IN IF name \notin DOMAIN L.locals
            THEN [L EXCEPT !.locals = Put(@, name, IntType),
                           !.tv = InsertAt(@, L.cip, Const(name, n)),
                           !.cip = @ + 1,
                           !.ret = name]
            ELSE [L EXCEPT !.ret = name]

new_label(L, prefix) ==
    IF L.err # "" THEN L
    ELSE [L EXCEPT !.lc = @ + 1, !.ret = prefix \o ToString(L.lc)]

typeof_var(L, id) ==
    IF id \in DOMAIN L.locals THEN L.locals[id]
    ELSE IF id \in DOMAIN m_lir_prog.funptrs THEN m_lir_prog.funptrs[id]
    ELSE IF id \in DOMAIN m_lir_prog.externs THEN m_lir_prog.externs[id]
    ELSE IF id = "__NULL" THEN NilType
    ELSE IntType

typeof_field(sid, fid) ==
    IF sid \in DOMAIN m_lir_prog.structs /\ fid \in DOMAIN m_lir_prog.structs[sid].fields
    THEN m_lir_prog.structs[sid].fields[fid]
    ELSE Thrown

\* called by visit(FieldAccess); the field's type in the struct the pointer points to
typeof_struct_field(struct_type, fid) == typeof_field(struct_type[2], fid)

typeof_array_element(arr_type) == IF arr_type[1] = "Array" THEN arr_type[2] ELSE Thrown
typeof_ptr_element(ptr_type) == IF ptr_type[1] = "Ptr" THEN ptr_type[2] ELSE Thrown
typeof_func_ret(fn_type) ==
    IF fn_type[1] = "Fn" THEN fn_type[3]
    ELSE IF fn_type[1] = "Ptr" /\ fn_type[2][1] = "Fn" THEN fn_type[2][3]
    ELSE Thrown

convert_arith_op(op) ==
    CASE op = "Add" -> "add" [] op = "Sub" -> "sub" [] op = "Mul" -> "mul" [] op = "Div" -> "div"
convert_rel_op(op) ==
    CASE op = "Eq" -> "eq" [] op = "NotEq" -> "ne" [] op = "Lt" -> "lt"
      [] op = "Lte" -> "lte" [] op = "Gt" -> "gt" [] op = "Gte" -> "gte"

\* ------------------------------------------------ expressions and places
RECURSIVE lower_exp(_, _)
RECURSIVE lower_place(_, _)
RECURSIVE lower_args(_, _, _, _)

\* Each visitor is written as the chain of its steps: a step is a local operator
\* whose parameters are the C++ locals bound so far and the lowerer after the
\* previous step.

\* the reverse-iterator loop of visit(CallStmt) / visit(FunCall): xs.push_back(lower_exp(*it))
lower_args(args, i, xs, L) ==
    LET argDone(L1) == lower_args(args, i - 1, Append(xs, L1.res), L1)
    IN IF i = 0 THEN [L EXCEPT !.ret = xs]
       ELSE argDone(lower_exp(args[i], L))

\* faulty variant of visit(Val): the temporary gets the type Ptr(typeof(src)) and the type
\* of src is not tested
VisitValPtrTyped(n, L) ==
    LET valLoad(src, L2) == SetRes(release(Emit(L2, Load(L2.ret, src)), <<src>>), L2.ret)
        valPlace(L1) == valLoad(L1.res, fresh_non_inner_var(L1, PtrType(typeof_var(L1, L1.res))))
    IN IF n[2][1] = "Id" THEN SetRes(L, n[2][2])
       ELSE valPlace(lower_place(n[2], L))

VisitVal(n, L) ==
    LET valLoad(src, L2) == SetRes(release(Emit(L2, Load(L2.ret, src)), <<src>>), L2.ret)
        valTyped(src, val_type, L1) ==
            IF val_type = Thrown THEN Throw(L1, "Type is not a pointer type")
            ELSE valLoad(src, fresh_non_inner_var(L1, val_type))
        valPlace(L1) == valTyped(L1.res, typeof_ptr_element(typeof_var(L1, L1.res)), L1)
    IN IF n[2][1] = "Id" THEN SetRes(L, n[2][2])
       ELSE valPlace(lower_place(n[2], L))

VisitNum(n, L) ==
    LET numConst(L1) == SetRes(L1, L1.ret)
    IN numConst(const_var(L, n[2]))

VisitNilExp(n, L) == SetRes(L, "__NULL")

\* x = fresh_non_inner_var(typeof(v)); % Copy(x, v)     (ret = x)
CopyToFresh(v, L) ==
    LET copyInto(Lf) == [Emit(Lf, Copy(Lf.ret, v)) EXCEPT !.ret = Lf.ret]
    IN IF L.err # "" THEN L ELSE copyInto(fresh_non_inner_var(L, typeof_var(L, v)))

\* faulty variant of the body of visit(Select): the result temporary is allocated from the
\* true branch whatever its value, also when it is __NULL
SelectBodyEager(g, tt, ff, pTT, pFF, pEND, L) ==
    LET selEnd(END, w, L7) ==
            SetRes(Emit(Emit(release(L7, <<w>>), Jump(END)), TvLabel(END)), L7.ret)
        selFF(END, x, w, L6) ==
            selEnd(END, w,
                   IF w # "__NULL"
                   THEN IF x = "__NULL" THEN CopyToFresh(w, L6)
                        ELSE [Emit(L6, Copy(x, w)) EXCEPT !.ret = x]
                   ELSE [L6 EXCEPT !.ret = x])
        selFF2(END, x, L6) == selFF(END, x, L6.res, L6)
        selJoin(FF, END, z, L4) ==
            selFF2(END, L4.ret, lower_exp(ff, Emit(Emit(release(L4, <<z>>), Jump(END)), TvLabel(FF))))
        selTT(FF, END, z, L3) ==
            selJoin(FF, END, z,
                    CopyToFresh(z, L3))
        selTT2(FF, END, L3) == selTT(FF, END, L3.res, L3)
        selGuard(TT, FF, END, y, L1) ==
            selTT2(FF, END, lower_exp(tt, release(Emit(Emit(L1, Branch(y, TT, FF)), TvLabel(TT)), <<y>>)))
        selGuard2(TT, FF, END, L1) == selGuard(TT, FF, END, L1.res, L1)
        selEND(TT, FF, Lc) == selGuard2(TT, FF, Lc.ret, lower_exp(g, Lc))
        selFFl(TT, Lb) == selEND(TT, Lb.ret, new_label(Lb, pEND))
        selTTl(La) == selFFl(La.ret, new_label(La, pFF))
    IN selTTl(new_label(L, pTT))

\* the body shared by visit(Select) and case And of visit(BinOp), which differ in the label prefixes
SelectBody(g, tt, ff, pTT, pFF, pEND, L) ==
    LET selEnd(END, w, L7) ==
            SetRes(Emit(Emit(release(L7, <<w>>), Jump(END)), TvLabel(END)), L7.ret)
        selFF(END, x, w, L6) ==
            selEnd(END, w,
                   IF w # "__NULL"
                   THEN IF x = "__NULL" THEN CopyToFresh(w, L6)
                        ELSE [Emit(L6, Copy(x, w)) EXCEPT !.ret = x]
                   ELSE [L6 EXCEPT !.ret = x])
        selFF2(END, x, L6) == selFF(END, x, L6.res, L6)
        selJoin(FF, END, z, L4) ==
            selFF2(END, L4.ret, lower_exp(ff, Emit(Emit(release(L4, <<z>>), Jump(END)), TvLabel(FF))))
        selTT(FF, END, z, L3) ==
            selJoin(FF, END, z,
                    IF z # "__NULL" THEN CopyToFresh(z, L3) ELSE [L3 EXCEPT !.ret = "__NULL"])
        selTT2(FF, END, L3) == selTT(FF, END, L3.res, L3)
        selGuard(TT, FF, END, y, L1) ==
            selTT2(FF, END, lower_exp(tt, release(Emit(Emit(L1, Branch(y, TT, FF)), TvLabel(TT)), <<y>>)))
        selGuard2(TT, FF, END, L1) == selGuard(TT, FF, END, L1.res, L1)
        selEND(TT, FF, Lc) == selGuard2(TT, FF, Lc.ret, lower_exp(g, Lc))
        selFFl(TT, Lb) == selEND(TT, Lb.ret, new_label(Lb, pEND))
        selTTl(La) == selFFl(La.ret, new_label(La, pFF))
    IN selTTl(new_label(L, pTT))

VisitSelect(n, L) == SelectBody(n[2], n[3], n[4], "if_true", "if_false", "if_end", L)

ArithOps == {"Add", "Sub", "Mul", "Div"}
RelOps == {"Eq", "NotEq", "Lt", "Lte", "Gt", "Gte"}

\* the arithmetic and the comparison cases of visit(BinOp)
VisitBinOpSimple(op, left, right, L) ==
    LET binEmit(op1, op2, L3) ==
            SetRes(release(Emit(L3, IF op \in ArithOps
                                    THEN Arith(L3.ret, convert_arith_op(op), op1, op2)
                                    ELSE Cmp(L3.ret, convert_rel_op(op), op1, op2)),
                           <<op1, op2>>), L3.ret)
        binRight(op1, L2) == binEmit(op1, L2.res, fresh_non_inner_var(L2, IntType))
        binLeft(L1) == binRight(L1.res, lower_exp(right, L1))
    IN binLeft(lower_exp(left, L))

\* faulty variant of case Or of visit(BinOp): the right operand is lowered before the Branch
VisitBinOpOrEager(left, right, L) ==
    LET orEnd(END, y, z, L4) ==
            SetRes(Emit(Emit(release(Emit(L4, Copy(y, z)), <<z>>), Jump(END)), TvLabel(END)), y)
        orCopy(FF, END, x, z, L3) ==
            orEnd(END, L3.ret, z,
                  release(Emit(Emit(Emit(L3, Copy(L3.ret, x)), Branch(L3.ret, END, FF)), TvLabel(FF)), <<x>>))
        orRight(FF, END, x, L2) == orCopy(FF, END, x, L2.res, fresh_non_inner_var(L2, IntType))
        orLeft(FF, END, L1) == orRight(FF, END, L1.res, lower_exp(right, L1))
        orEND(FF, Lb) == orLeft(FF, Lb.ret, lower_exp(left, Lb))
        orFF(La) == orEND(La.ret, new_label(La, "or_end"))
    IN orFF(new_label(L, "or_false"))

\* case Or of visit(BinOp)
VisitBinOpOr(left, right, L) ==
    LET orEnd(END, y, L4) ==
            SetRes(Emit(Emit(release(Emit(L4, Copy(y, L4.res)), <<L4.res>>), Jump(END)), TvLabel(END)), y)
        orCopy(FF, END, x, L2) ==
            orEnd(END, L2.ret,
                  lower_exp(right,
                            release(Emit(Emit(Emit(L2, Copy(L2.ret, x)), Branch(L2.ret, END, FF)), TvLabel(FF)),
                                    <<x>>)))
        orLeft(FF, END, L1) == orCopy(FF, END, L1.res, fresh_non_inner_var(L1, IntType))
        orEND(FF, Lb) == orLeft(FF, Lb.ret, lower_exp(left, Lb))
        orFF(La) == orEND(La.ret, new_label(La, "or_end"))
    IN orFF(new_label(L, "or_false"))

VisitBinOp(n, L) ==
    CASE n[2] \in ArithOps \cup RelOps -> VisitBinOpSimple(n[2], n[3], n[4], L)
      [] n[2] = "And" -> SelectBody(n[3], n[4], Num(0), "and_true", "and_false", "and_end", L)
      [] n[2] = "Or" -> VisitBinOpOr(n[3], n[4], L)

VisitUnOp(n, L) ==
    LET negConst(L1) == SetRes(L1, L1.ret)
        negEmit(lhs, zero, L3) == SetRes(release(Emit(L3, Arith(lhs, "sub", zero, L3.res)), <<L3.res>>), lhs)
        negZero(lhs, L2) == negEmit(lhs, L2.ret, lower_exp(n[3], L2))
        negFresh(L1) == negZero(L1.ret, const_var(L1, 0))
    IN IF n[2] = "Neg"
       THEN IF n[3][1] = "Num" THEN negConst(const_var(L, Negate(n[3][2])))
            ELSE negFresh(fresh_non_inner_var(L, IntType))
       ELSE \* Not: visit(BinOp(Eq, n->exp, Num(0)))
            VisitBinOp(BinOp("Eq", n[3], Num(0)), L)

VisitNewSingle(n, L) ==
    LET newEmit(tau, L1) == SetRes(Emit(L1, AllocSingle(L1.ret, tau)), L1.ret)
        newTau(tau) == newEmit(tau, fresh_non_inner_var(L, PtrType(tau)))
    IN newTau(convert_type(n[2]))

VisitNewArray(n, L) ==
    LET arrEmit(tau, lhs, L2) == SetRes(release(Emit(L2, AllocArray(lhs, L2.res, tau)), <<L2.res>>), lhs)
        arrFresh(tau, L1) == arrEmit(tau, L1.ret, lower_exp(n[3], L1))
        arrTau(tau) == arrFresh(tau, fresh_non_inner_var(L, ArrayType(tau)))
    IN arrTau(convert_type(n[2]))

VisitFunCall(n, L) ==
    LET callEmit(xs, fun, L3) ==
            SetRes(release(Emit(L3, Call(Some(L3.ret), fun, xs)), Append(xs, fun)), L3.ret)
        callTyped(xs, fun, ret_type, L2) ==
            IF ret_type = Thrown THEN Throw(L2, "Type is not a function or function pointer type")
            ELSE callEmit(xs, fun, fresh_non_inner_var(L2, ret_type))
        callCallee(xs, L2) == callTyped(xs, L2.res, typeof_func_ret(typeof_var(L2, L2.res)), L2)
        callArgs(L1) == callCallee(L1.ret, lower_exp(n[2], L1))
    IN callArgs(lower_args(n[3], Len(n[3]), <<>>, L))

VisitCallExp(n, L) == VisitFunCall(n[2], L)

VisitId(n, L) == Throw(L, "Id should not be lowered as a place (address). This indicates a bug in the lowerer.")

VisitDeref(n, L) ==
    LET derefExp(L1) == SetRes(L1, L1.res)
    IN derefExp(lower_exp(n[2], L))

VisitArrayAccess(n, L) ==
    LET gepEmit(src, idx, L3) == SetRes(release(Emit(L3, Gep(L3.ret, src, idx, TRUE)), <<src, idx>>), L3.ret)
        gepTyped(src, idx, elem_type, L2) ==
            IF elem_type = Thrown THEN Throw(L2, "Type is not an array type")
            ELSE gepEmit(src, idx, fresh_inner_var(L2, PtrType(elem_type)))
        gepIdx(src, L2) == gepTyped(src, L2.res, typeof_array_element(typeof_var(L2, src)), L2)
        gepSrc(L1) == gepIdx(L1.res, lower_exp(n[3], L1))
    IN gepSrc(lower_exp(n[2], L))

VisitFieldAccess(n, L) ==
    LET gfpEmit(src, sid, L3) == SetRes(release(Emit(L3, Gfp(L3.ret, src, sid, n[3])), <<src>>), L3.ret)
        gfpField(src, sid, fld_type, L2) ==
            IF fld_type = Thrown THEN Throw(L2, "Could not find field " \o n[3])
            ELSE gfpEmit(src, sid, fresh_inner_var(L2, PtrType(fld_type)))
        gfpSid(src, struct_type, L2) ==
            gfpField(src, L2.ret, typeof_struct_field(struct_type, n[3]), L2)
        gfpTyped(src, ptr_type, struct_type, L1) ==
            IF struct_type = Thrown THEN Throw(L1, "Type is not a pointer type")
            ELSE IF struct_type[1] # "Struct" THEN Throw(L1, "FieldAccess on non-struct pointer type")
            ELSE gfpSid(src, struct_type, fresh_inner_var(L1, ptr_type))
        gfpPtr(src, ptr_type, L1) == gfpTyped(src, ptr_type, typeof_ptr_element(ptr_type), L1)
        gfpSrc(L1) == gfpPtr(L1.res, typeof_var(L1, L1.res), L1)
    IN gfpSrc(lower_exp(n[2], L))

lower_exp(e, L) ==
    IF L.err # "" THEN L
    ELSE IF e = Null THEN Throw(L, NullDeref)
    ELSE CASE e[1] = "Val" -> VisitVal(e, L)
           [] e[1] = "Num" -> VisitNum(e, L)
           [] e[1] = "NilExp" -> VisitNilExp(e, L)
           [] e[1] = "Select" -> VisitSelect(e, L)
           [] e[1] = "UnOp" -> VisitUnOp(e, L)
           [] e[1] = "BinOp" -> VisitBinOp(e, L)
           [] e[1] = "NewSingle" -> VisitNewSingle(e, L)
           [] e[1] = "NewArray" -> VisitNewArray(e, L)
           [] e[1] = "CallExp" -> VisitCallExp(e, L)

lower_place(p, L) ==
    IF L.err # "" THEN L
    ELSE CASE p[1] = "Id" -> VisitId(p, L)
           [] p[1] = "Deref" -> VisitDeref(p, L)
           [] p[1] = "ArrayAccess" -> VisitArrayAccess(p, L)
           [] p[1] = "FieldAccess" -> VisitFieldAccess(p, L)
           [] OTHER -> Throw(L, "Unknown Place type")


\* ----------------------------------------------------------- statements
\* L also carries hs (m_loop_hdr_stack) and es (m_loop_end_stack)
VisitAssign(n, L) ==
    LET asgCopy(L1) == release(Emit(L1, Copy(n[2][2], L1.res)), <<L1.res>>)
        asgStore(x, L2) == release(Emit(L2, Store(x, L2.res)), <<x, L2.res>>)
        asgPlace(L1) == asgStore(L1.res, lower_exp(n[3], L1))
    IN IF n[2][1] = "Id" THEN asgCopy(lower_exp(n[3], L))
       ELSE asgPlace(lower_place(n[2], L))

VisitCallStmt(n, L) ==
    LET csEmit(xs, L2) == release(Emit(L2, Call(None, L2.res, xs)), Append(xs, L2.res))
        csArgs(L1) == csEmit(L1.ret, lower_exp(n[2][2], L1))
    IN csArgs(lower_args(n[2][3], Len(n[2][3]), <<>>, L))

VisitReturn(n, L) ==
    LET retEmit(L1) == release(Emit(L1, Ret(Some(L1.res))), <<L1.res>>)
    IN IF n[2] # None THEN retEmit(lower_exp(n[2][1], L))
       ELSE Emit(L, Ret(None))

\* faulty variant of visit(Break): jumps to the end label of the outermost loop
VisitBreakOutermost(L) ==
    IF L.es = <<>> THEN Throw(L, "Break statement outside of loop")
    ELSE Emit(L, Jump(Head(L.es)))

\* faulty variant of visit(Break): the emptiness test of m_loop_end_stack is missing
VisitBreakUnchecked(L) == Emit(L, Jump(IF L.es = <<>> THEN "" ELSE Last(L.es)))

VisitBreak(L) ==
    IF L.es = <<>> THEN Throw(L, "Break statement outside of loop")
    ELSE Emit(L, Jump(Last(L.es)))

VisitContinue(L) ==
    IF L.hs = <<>> THEN Throw(L, "Continue statement outside of loop")
    ELSE Emit(L, Jump(Last(L.hs)))

\* visit(If) up to the call lower_stmt(n->tt); ret = <<TT, FF, END>>
IfEnter(g, L) ==
    LET ifRet(TT, FF, END, L2) == IF L2.err # "" THEN L2 ELSE [L2 EXCEPT !.ret = <<TT, FF, END>>]
        ifGuard(TT, FF, END, L1) ==
            ifRet(TT, FF, END, release(Emit(Emit(L1, Branch(L1.res, TT, FF)), TvLabel(TT)), <<L1.res>>))
        ifEND(TT, FF, Lc) == ifGuard(TT, FF, Lc.ret, lower_exp(g, Lc))
        ifFF(TT, Lb) == ifEND(TT, Lb.ret, new_label(Lb, "if_end"))
        ifTT(La) == ifFF(La.ret, new_label(La, "if_false"))
    IN ifTT(new_label(L, "if_true"))

\* faulty variant of visit(If) after lower_stmt(n->tt): no Jump(END) behind a then-branch
\* that ended with a terminal
IfElseUnlessTerminated(fr, L) ==
    IF L.err = "" /\ L.tv[Len(L.tv)][1] \in {"Ret", "Jump", "Branch"}
    THEN Emit(L, TvLabel(fr.FF))
    ELSE Emit(Emit(L, Jump(fr.END)), TvLabel(fr.FF))

\* visit(If) between lower_stmt(n->tt) and the test of n->ff
IfElse(fr, L) == Emit(Emit(L, Jump(fr.END)), TvLabel(fr.FF))

\* faulty variant of the end of visit(If): Label(END) is not emitted
IfExitNoLabel(fr, L) == Emit(L, Jump(fr.END))

\* visit(If) after the else branch
IfExit(fr, L) == Emit(Emit(L, Jump(fr.END)), TvLabel(fr.END))

\* visit(While) up to the call lower_stmt(n->body); ret = <<LOOP_HDR, BODY, LOOP_END>>
WhileEnter(g, L) ==
    LET whRet(HDR, BODY, END, L2) == IF L2.err # "" THEN L2 ELSE [L2 EXCEPT !.ret = <<HDR, BODY, END>>]
        whGuard(HDR, BODY, END, L1) ==
            whRet(HDR, BODY, END,
                  Emit(release(Emit(L1, Branch(L1.res, BODY, END)), <<L1.res>>), TvLabel(BODY)))
        whPush(HDR, BODY, END, Lc) ==
            whGuard(HDR, BODY, END,
                    lower_exp(g, Emit(Emit([Lc EXCEPT !.hs = Append(@, HDR), !.es = Append(@, END)],
                                           Jump(HDR)), TvLabel(HDR))))
        whEND(HDR, BODY, Lc) == whPush(HDR, BODY, Lc.ret, Lc)
        whBODY(HDR, Lb) == whEND(HDR, Lb.ret, new_label(Lb, "loop_end"))
        whHDR(La) == whBODY(La.ret, new_label(La, "loop_body"))
    IN whHDR(new_label(L, "loop_hdr"))

\* faulty variant of the end of visit(While): the Jump back to the header is missing
WhileExitNoBackEdge(fr, L) ==
    [Emit(L, TvLabel(fr.LOOP_END)) EXCEPT !.hs = Front(@), !.es = Front(@)]

\* faulty variant of the end of visit(While): m_loop_end_stack is not popped
WhileExitHdrOnly(fr, L) ==
    [Emit(Emit(L, Jump(fr.LOOP_HDR)), TvLabel(fr.LOOP_END)) EXCEPT !.hs = Front(@)]

\* visit(While) after lower_stmt(n->body)
WhileExit(fr, L) ==
    [Emit(Emit(L, Jump(fr.LOOP_HDR)), TvLabel(fr.LOOP_END)) EXCEPT !.hs = Front(@), !.es = Front(@)]

\* ---------------------------------------------- statements of a whole AST
\* The visitors of statement nodes run to completion on an AST that is given whole.
RECURSIVE VisitStmts(_, _, _)
RECURSIVE lower_stmt(_, _)

VisitIfNode(n, L) ==
    LET ifFF(fr, L2) ==
            IF n[4] # None THEN IfExit(fr, VisitStmts(n[4][1], 1, L2)) ELSE IfExit(fr, L2)
        ifTT(fr, L1) == ifFF(fr, IfElse(fr, VisitStmts(n[3], 1, L1)))
        ifIn(L1) ==
            IF L1.err # "" THEN L1
            ELSE ifTT([TT |-> L1.ret[1], FF |-> L1.ret[2], END |-> L1.ret[3]], L1)
    IN ifIn(IfEnter(n[2], L))

VisitWhileNode(n, L) ==
    LET whBody(fr, L1) == WhileExit(fr, VisitStmts(n[3], 1, L1))
        whIn(L1) ==
            IF L1.err # "" THEN L1
            ELSE whBody([LOOP_HDR |-> L1.ret[1], BODY |-> L1.ret[2], LOOP_END |-> L1.ret[3]], L1)
    IN whIn(WhileEnter(n[2], L))

lower_stmt(s, L) ==
    IF L.err # "" THEN L
    ELSE CASE s[1] = "Assign" -> VisitAssign(s, L)
           [] s[1] = "CallStmt" -> VisitCallStmt(s, L)
           [] s[1] = "Return" -> VisitReturn(s, L)
           [] s[1] = "Break" -> VisitBreak(L)
           [] s[1] = "Continue" -> VisitContinue(L)
           [] s[1] = "If" -> VisitIfNode(s, L)
           [] s[1] = "While" -> VisitWhileNode(s, L)

\* the loop of visit(Stmts) from statement i on
VisitStmts(stmts, i, L) ==
    IF i > Len(stmts) THEN L ELSE VisitStmts(stmts, i + 1, lower_stmt(stmts[i], L))

\* ------------------------------------------------- the AST after a visit
\* visit(UnOp) case Not moves n->exp into a temporary BinOp, which is destroyed when the
\* case ends: the UnOp keeps a null operand.  Every other visitor leaves its node as it
\* is and visits its children.
RECURSIVE MovedExp(_)
RECURSIVE MovedPlace(_)
RECURSIVE MovedExps(_)
RECURSIVE MovedStmt(_)
RECURSIVE MovedStmts(_)
MovedExps(es) == [i \in 1..Len(es) |-> MovedExp(es[i])]
MovedFunCall(fc) == FunCall(MovedExp(fc[2]), MovedExps(fc[3]))
MovedPlace(p) ==
    CASE p[1] = "Id" -> p
      [] p[1] = "Deref" -> Deref(MovedExp(p[2]))
      [] p[1] = "ArrayAccess" -> ArrayAccess(MovedExp(p[2]), MovedExp(p[3]))
      [] p[1] = "FieldAccess" -> FieldAccess(MovedExp(p[2]), p[3])
MovedExp(e) ==
    CASE e[1] = "Val" -> IF e[2][1] = "Id" THEN e ELSE Val(MovedPlace(e[2]))
      [] e[1] = "Select" -> Select(MovedExp(e[2]), MovedExp(e[3]), MovedExp(e[4]))
      [] e[1] = "UnOp" -> IF e[2] = "Not" THEN UnOp("Not", Null)
                          ELSE IF e[3][1] = "Num" THEN e ELSE UnOp(e[2], MovedExp(e[3]))
      [] e[1] = "BinOp" -> BinOp(e[2], MovedExp(e[3]), MovedExp(e[4]))
      [] e[1] = "NewArray" -> NewArray(e[2], MovedExp(e[3]))
      [] e[1] = "CallExp" -> CallExp(MovedFunCall(e[2]))
      [] OTHER -> e
MovedStmts(stmts) == [i \in 1..Len(stmts) |-> MovedStmt(stmts[i])]
MovedStmt(s) ==
    CASE s[1] = "Assign" ->
            Assign(IF s[2][1] = "Id" THEN s[2] ELSE MovedPlace(s[2]), MovedExp(s[3]))
      [] s[1] = "CallStmt" -> CallStmt(MovedFunCall(s[2]))
      [] s[1] = "Return" -> IF s[2] = None THEN s ELSE Return(Some(MovedExp(s[2][1])))
      [] s[1] = "If" ->
            If(MovedExp(s[2]), MovedStmts(s[3]),
               IF s[4] = None THEN None ELSE Some(MovedStmts(s[4][1])))
      [] s[1] = "While" -> While(MovedExp(s[2]), MovedStmts(s[3]))
      [] OTHER -> s

\* ------------------------------------------------------------ functions
\* the backwards scan of step 4 of visit(FunctionDef)
RECURSIVE HasRet(_, _)
HasRet(tv, i) ==
    IF i = 0 THEN FALSE
    ELSE IF IsTerm(tv[i]) THEN tv[i][1] = "Ret"
    ELSE IF IsLabel(tv[i]) THEN HasRet(tv, i - 1)
    ELSE FALSE

\* faulty variant of step 4 of visit(FunctionDef): no implicit return
ImplicitReturnNever(tv) == tv

\* faulty variant of step 4 of visit(FunctionDef): the search does not stop at the last
\* terminal or instruction, so a Ret anywhere in tv suppresses the implicit return
ImplicitReturnUnlessAnyRet(tv) ==
    IF \E i \in 1..Len(tv) : tv[i][1] = "Ret" THEN tv ELSE Append(tv, Ret(None))

ImplicitReturn(tv) == IF HasRet(tv, Len(tv)) THEN tv ELSE Append(tv, Ret(None))

DefaultBlock == [label |-> "", insts |-> <<>>, term |-> Monostate]

\* the loop of build_cfg from item i on; cur is the label current_bb points to ("" for nullptr);
\* the result is [ok, body]: ok is FALSE if body.at() threw
RECURSIVE CfgScan(_, _, _, _, _)
CfgScan(tv, i, body, cur, fname) ==
    IF i > Len(tv) THEN [ok |-> TRUE, body |-> body]
    ELSE LET item == tv[i] IN
         IF IsLabel(item)
         THEN LET b0 == IF item[2] \in DOMAIN body THEN body[item[2]] ELSE DefaultBlock
              IN CfgScan(tv, i + 1, Put(body, item[2], [b0 EXCEPT !.label = item[2]]), item[2], fname)
         ELSE IF IsInst(item)
         THEN LET c == IF cur = "" THEN fname \o "_entry" ELSE cur
              IN IF c \notin DOMAIN body THEN [ok |-> FALSE, body |-> body]
                 ELSE CfgScan(tv, i + 1, [body EXCEPT ![c].insts = Append(@, item)], c, fname)
         ELSE IF cur = "" THEN CfgScan(tv, i + 1, body, cur, fname)
         ELSE CfgScan(tv, i + 1, [body EXCEPT ![cur].term = item], "", fname)

build_cfg(tv, body, fname) == CfgScan(tv, 1, body, "", fname)

\* The lowerer's members between two functions as one record R: functions
\* (m_lir_prog->functions), cur (m_current_fun), tv, lc, tc, cip, res, hs, es, err, and
\* i (the index of the function visited last).
\* faulty variant of steps 1-2 of visit(FunctionDef): m_label_counter is not reset
FunctionRegsStale(n, R) ==
    [tv |-> <<TvLabel(n.name \o "_entry")>>, locals |-> R.functions[n.name].locals,
     lc |-> R.lc, tc |-> 0, cip |-> 1, res |-> R.res, ret |-> <<>>, err |-> "",
     hs |-> R.hs, es |-> R.es]

\* steps 1-2 of visit(FunctionDef): the registers the body is lowered from
FunctionRegs(n, R) ==
    [tv |-> <<TvLabel(n.name \o "_entry")>>, locals |-> R.functions[n.name].locals,
     lc |-> 0, tc |-> 0, cip |-> 1, res |-> R.res, ret |-> <<>>, err |-> "",
     hs |-> R.hs, es |-> R.es]

\* visit(FunctionDef) on a function whose body is given whole
VisitFunctionDefNode(n, R) ==
    LET fdOut(L1, tv2, cfg) ==
            [functions |-> [R.functions EXCEPT ![n.name].locals = L1.locals,
                                               ![n.name].body = cfg.body],
             cur |-> n.name, tv |-> tv2, lc |-> L1.lc, tc |-> L1.tc, cip |-> L1.cip,
             res |-> L1.res, hs |-> L1.hs, es |-> L1.es,
             err |-> IF cfg.ok THEN "" ELSE "map::at", i |-> R.i]
        fdCfg(L1, tv2) == fdOut(L1, tv2, build_cfg(tv2, R.functions[n.name].body, n.name))
        fdBody(L1) ==
            IF L1.err # ""
            THEN [functions |-> [R.functions EXCEPT ![n.name].locals = L1.locals],
                  cur |-> n.name, tv |-> L1.tv, lc |-> L1.lc, tc |-> L1.tc, cip |-> L1.cip,
                  res |-> L1.res, hs |-> L1.hs, es |-> L1.es, err |-> L1.err, i |-> R.i]
            ELSE fdCfg(L1, ImplicitReturn(L1.tv))
    IN fdBody(VisitStmts(n.body, 1, FunctionRegs(n, R)))

\* step 4 of visit(Program) from function i on
RECURSIVE VisitProgramBodies(_, _, _)
VisitProgramBodies(fs, i, R) ==
    IF i > Len(fs) \/ R.err # "" THEN R
    ELSE VisitProgramBodies(fs, i + 1, VisitFunctionDefNode(fs[i], [R EXCEPT !.i = i]))

\* the AST after visit(Program) visited its functions up to number k (all of them if
\* k = Len + 1); if function k threw it holds no Not (see ProgramsT)
MovedProgram(prog, k) ==
    [prog EXCEPT !.functions =
        [i \in 1..Len(prog.functions) |->
            IF i < k THEN [prog.functions[i] EXCEPT !.body = MovedStmts(@)]
            ELSE prog.functions[i]]]

\* --------------------------------------------------------- program shell
RECURSIVE ShellStructFields(_, _)
ShellStructFields(fields, acc) ==
    IF fields = <<>> THEN acc
    ELSE ShellStructFields(Tail(fields), Put(acc, Head(fields).name, convert_type(Head(fields).type)))

RECURSIVE ShellStructs(_, _)
ShellStructs(structs, acc) ==
    IF structs = <<>> THEN acc
    ELSE ShellStructs(Tail(structs),
            Put(acc, Head(structs).name,
                [name |-> Head(structs).name, fields |-> ShellStructFields(Head(structs).fields, EmptyMap)]))

RECURSIVE ShellExterns(_, _)
ShellExterns(externs, acc) ==
    IF externs = <<>> THEN acc
    ELSE ShellExterns(Tail(externs),
            Put(acc, Head(externs).name,
                FnType(convert_types(Head(externs).param_types), convert_type(Head(externs).rettype))))

RECURSIVE DeclTypes(_)
DeclTypes(ds) == IF ds = <<>> THEN <<>> ELSE <<convert_type(Head(ds).type)>> \o DeclTypes(Tail(ds))

RECURSIVE DeclPairs(_)
DeclPairs(ds) == IF ds = <<>> THEN <<>> ELSE << <<Head(ds).name, convert_type(Head(ds).type)>> >> \o DeclPairs(Tail(ds))

RECURSIVE DeclLocals(_, _)
DeclLocals(ds, acc) ==
    IF ds = <<>> THEN acc ELSE DeclLocals(Tail(ds), Put(acc, Head(ds).name, convert_type(Head(ds).type)))

\* the function shell of one AST function
ShellFunction(f) ==
    [name |-> f.name,
     params |-> DeclPairs(f.params),
     rettyp |-> convert_type(f.rettype),
     locals |-> DeclLocals(f.locals, DeclLocals(f.params, EmptyMap)),
     body |-> EmptyMap]

\* faulty variant of the funptrs step of visit(Program): main is not excluded
ShellFunptrAll(f, funptrs) ==
    Put(funptrs, f.name, PtrType(FnType(DeclTypes(f.params), convert_type(f.rettype))))

\* funptrs gets every function but main
ShellFunptr(f, funptrs) ==
    IF f.name # "main"
    THEN Put(funptrs, f.name, PtrType(FnType(DeclTypes(f.params), convert_type(f.rettype))))
    ELSE funptrs

RECURSIVE ShellFunctions(_, _)
ShellFunctions(fs, prog) ==
    IF fs = <<>> THEN prog
    ELSE ShellFunctions(Tail(fs),
            [prog EXCEPT !.funptrs = ShellFunptr(Head(fs), @),
                         !.functions = Put(@, Head(fs).name, ShellFunction(Head(fs)))])

\* steps 1-3 of visit(Program)
ProgramShell(n) ==
    ShellFunctions(n.functions,
        [structs |-> ShellStructs(n.structs, EmptyMap),
         externs |-> ShellExterns(n.externs, EmptyMap),
         funptrs |-> EmptyMap,
         functions |-> EmptyMap])


\* ------------------------------------------------ serializer (lir.hpp)
RECURSIVE TypeStr(_)
RECURSIVE ParamTypesStr(_, _)
ParamTypesStr(ps, i) ==
    IF i > Len(ps) THEN ""
    ELSE TypeStr(ps[i]) \o (IF i = Len(ps) THEN "" ELSE ", ") \o ParamTypesStr(ps, i + 1)

TypeStr(t) ==
    CASE t[1] = "Int" -> "int"
      [] t[1] = "Nil" -> "nil"
      [] t[1] = "Struct" -> "struct " \o t[2]
      [] t[1] = "Array" -> "[" \o TypeStr(t[2]) \o "]"
      [] t[1] = "Ptr" -> "&" \o TypeStr(t[2])
      [] t[1] = "Fn" -> "fn (" \o ParamTypesStr(t[2], 1) \o ") -> " \o TypeStr(t[3])

RECURSIVE ArgsStr(_)
ArgsStr(args) == IF args = <<>> THEN "" ELSE ", " \o Head(args) \o ArgsStr(Tail(args))

InstStr(i) ==
    "  " \o
    CASE i[1] = "Const" -> i[2] \o " = $const " \o ToString(i[3])
      [] i[1] = "Copy" -> i[2] \o " = $copy " \o i[3]
      [] i[1] = "Arith" -> i[2] \o " = $arith " \o i[3] \o " " \o i[4] \o " " \o i[5]
      [] i[1] = "Cmp" -> i[2] \o " = $cmp " \o i[3] \o " " \o i[4] \o " " \o i[5]
      [] i[1] = "Load" -> i[2] \o " = $load " \o i[3]
      [] i[1] = "Store" -> "$store " \o i[2] \o " " \o i[3]
      [] i[1] = "Gfp" -> i[2] \o " = $gfp " \o i[3] \o ", " \o i[4] \o ", " \o i[5]
      [] i[1] = "Gep" -> i[2] \o " = $gep " \o i[3] \o " " \o i[4] \o " [" \o (IF i[5] THEN "true" ELSE "false") \o "]"
      [] i[1] = "AllocSingle" -> i[2] \o " = $alloc_single " \o TypeStr(i[3])
      [] i[1] = "AllocArray" -> i[2] \o " = $alloc_array " \o i[3] \o " " \o TypeStr(i[4])
      [] i[1] = "Call" -> (IF i[2] # None THEN i[2][1] \o " = " ELSE "") \o "$call " \o i[3] \o ArgsStr(i[4])

TermStr(t) ==
    "  " \o
    CASE t[1] = "Jump" -> "$jump " \o t[2]
      [] t[1] = "Branch" -> "$branch " \o t[2] \o " " \o t[3] \o " " \o t[4]
      [] t[1] = "Ret" -> "$ret" \o (IF t[2] # None THEN " " \o t[2][1] ELSE "")
      [] t[1] = "monostate" -> "$unreachable"

RECURSIVE InstLines(_)
InstLines(insts) == IF insts = <<>> THEN <<>> ELSE <<InstStr(Head(insts))>> \o InstLines(Tail(insts))

\* the list `labels` of operator<<(ostream, Program) after labels.sort()
BlockLabels(func) ==
    LET entry_label == "entry"
        keys == SortedKeys(DOMAIN func.body \ {entry_label})
    IN ListSort((IF entry_label \in DOMAIN func.body THEN <<entry_label>> ELSE <<>>) \o keys)

RECURSIVE BlockLines(_, _)
BlockLines(func, labels) ==
    IF labels = <<>> THEN <<>>
    ELSE LET bb == func.body[Head(labels)]
         IN <<"", Head(labels) \o ":">> \o InstLines(bb.insts) \o <<TermStr(bb.term)>>
            \o BlockLines(func, Tail(labels))

RECURSIVE ParamsStr(_, _)
ParamsStr(ps, i) ==
    IF i > Len(ps) THEN ""
    ELSE ps[i][1] \o ": " \o TypeStr(ps[i][2]) \o (IF i < Len(ps) THEN ", " ELSE "") \o ParamsStr(ps, i + 1)

RECURSIVE LocalsStr(_, _, _)
LocalsStr(locals, keys, i) ==
    IF i > Len(keys) THEN ""
    ELSE keys[i] \o ":" \o TypeStr(locals[keys[i]]) \o (IF i < Len(keys) THEN ", " ELSE "")
         \o LocalsStr(locals, keys, i + 1)

FunctionLines(func) ==
    <<"fn " \o func.name \o "(" \o ParamsStr(func.params, 1) \o ") -> " \o TypeStr(func.rettyp) \o " {">>
    \o (IF DOMAIN func.locals # {}
        THEN <<"let " \o LocalsStr(func.locals, SortedKeys(DOMAIN func.locals), 1)>>
        ELSE <<>>)
    \o BlockLines(func, BlockLabels(func))
    \o <<"}", "">>

RECURSIVE FieldLines(_, _)
FieldLines(fields, keys) ==
    IF keys = <<>> THEN <<>>
    ELSE <<"  " \o Head(keys) \o ": " \o TypeStr(fields[Head(keys)]) \o ";">> \o FieldLines(fields, Tail(keys))

RECURSIVE StructLines(_, _)
StructLines(structs, keys) ==
    IF keys = <<>> THEN <<>>
    ELSE <<"struct " \o Head(keys) \o " {">>
         \o FieldLines(structs[Head(keys)].fields, SortedKeys(DOMAIN structs[Head(keys)].fields))
         \o <<"}", "">> \o StructLines(structs, Tail(keys))

RECURSIVE DeclLines(_, _, _)
DeclLines(word, m, keys) ==
    IF keys = <<>> THEN <<>>
    ELSE <<word \o " " \o Head(keys) \o " : " \o TypeStr(m[Head(keys)])>> \o DeclLines(word, m, Tail(keys))

RECURSIVE FunctionsLines(_, _)
FunctionsLines(functions, keys) ==
    IF keys = <<>> THEN <<>>
    ELSE FunctionLines(functions[Head(keys)]) \o FunctionsLines(functions, Tail(keys))

\* operator<<(std::ostream&, const Program&): the lines written
PrintProgram(prog) ==
    StructLines(prog.structs, SortedKeys(DOMAIN prog.structs))
    \o DeclLines("extern", prog.externs, SortedKeys(DOMAIN prog.externs))
    \o (IF DOMAIN prog.externs # {} THEN <<"">> ELSE <<>>)
    \o DeclLines("funptr", prog.funptrs, SortedKeys(DOMAIN prog.funptrs))
    \o (IF DOMAIN prog.funptrs # {} THEN <<"">> ELSE <<>>)
    \o FunctionsLines(prog.functions, SortedKeys(DOMAIN prog.functions))


\* ------------------------------------------------------- the input programs
\* struct S { f: int; g: &S }   extern ext: (int, int) -> int
\* fn main() -> int and fn foo(u: int, v: &int) -> int, both with the locals
\* x, y: int; p: &int; s: &S; a: [int]; fp: &fn(int, int) -> int
Decl(name, type) == [name |-> name, type |-> type]
StructS == [name |-> "S", fields |-> <<Decl("f", AInt), Decl("g", APtr(AStruct("S")))>>]
ExternExt == [name |-> "ext", param_types |-> <<AInt, AInt>>, rettype |-> AInt]
CommonLocals ==
    <<Decl("x", AInt), Decl("y", AInt), Decl("p", APtr(AInt)), Decl("s", APtr(AStruct("S"))),
      Decl("a", AArray(AInt)), Decl("fp", APtr(AFn(<<AInt, AInt>>, AInt)))>>
FunMain == [name |-> "main", params |-> <<>>, rettype |-> AInt, locals |-> CommonLocals]
FunFoo == [name |-> "foo", params |-> <<Decl("u", AInt), Decl("v", APtr(AInt))>>,
           rettype |-> AInt, locals |-> CommonLocals]
Programs ==
    {[structs |-> <<StructS>>, externs |-> <<ExternExt>>, functions |-> fs] :
        fs \in {<<FunMain, FunFoo>>, <<FunFoo, FunMain>>, <<FunMain>>}}

HasFoo == \E i \in 1..Len(ast.functions) : ast.functions[i].name = "foo"

\* control-flow menu: simple statements and guards
CtlStmts ==
    {Assign(Id("x"), Num(1)), Assign(Id("x"), Var("y")),
     Assign(Id("x"), BinOp("And", Var("x"), Var("y"))),
     CallStmt(FunCall(Var("ext"), <<Var("x"), Var("y")>>)),
     Return(Some(Num(2))), Return(Some(Var("x")))}
CtlGuards == {Var("x"), Num(1)}

\* expression menu
IntExps ==
    {Num(3), UnOp("Neg", Num(5)), Var("y"),
     BinOp("Add", Var("x"), Num(3)), BinOp("Lt", Var("x"), Var("y")),
     BinOp("And", Var("x"), Var("y")), BinOp("Or", Var("x"), Var("y")),
     BinOp("Or", BinOp("Lt", Var("x"), Num(3)), BinOp("Add", Var("y"), Num(1))),
     BinOp("And", BinOp("Lt", Var("x"), Num(3)), Num(3)),
     UnOp("Neg", Var("x")), UnOp("Not", Var("x")),
     Select(Var("x"), Num(1), Num(2)), Select(Var("x"), Var("y"), Num(1)),
     Val(Deref(Var("p"))), Val(ArrayAccess(Var("a"), Num(0))),
     Val(FieldAccess(Var("s"), "f")),
     Val(FieldAccess(Val(FieldAccess(Var("s"), "g")), "f")),
     CallExp(FunCall(Var("ext"), <<Var("x"), Var("y")>>)),
     CallExp(FunCall(Var("ext"), <<Num(1), Num(2)>>)),
     CallExp(FunCall(Var("fp"), <<Var("x"), Num(3)>>)),
     Val(Deref(Var("x")))}
FooExps == {CallExp(FunCall(Var("foo"), <<Var("x"), Var("p")>>))}
ExpStmts ==
    {Assign(Id("x"), e) : e \in IntExps \cup (IF HasFoo THEN FooExps ELSE {})}
    \cup {Assign(Id("p"), NewSingle(AInt)), Assign(Id("a"), NewArray(AInt, Num(4))),
          Assign(Id("p"), NilExp), Assign(Id("p"), Select(Var("x"), NilExp, Var("p"))),
          Assign(Id("p"), Select(Var("x"), NilExp, NilExp)),
          Assign(Id("s"), Select(Var("x"), NilExp, NewSingle(AStruct("S")))),
          Assign(Id("s"), Select(Var("x"), NewSingle(AStruct("S")), NilExp)),
          Assign(FieldAccess(Var("s"), "f"), Num(5)),
          Assign(Deref(Var("p")), Var("y")),
          Assign(ArrayAccess(Var("a"), Var("x")), Num(7)),
          Assign(FieldAccess(Var("p"), "f"), Num(5)),
          CallStmt(FunCall(Var("ext"), <<Var("x"), Num(3)>>)),
          CallStmt(FunCall(Var("fp"), <<Var("y"), Var("x")>>)),
          Return(Some(BinOp("Add", Var("x"), Num(3)))), Return(Some(Num(3))), Return(None)}
    \cup (IF HasFoo THEN {CallStmt(FunCall(Var("foo"), <<Var("x"), Var("p")>>))} ELSE {})
ExpGuards == {Var("x"), BinOp("Lt", Var("x"), Num(3)), BinOp("And", Var("x"), Var("y"))}

\* menu of statements that name z, which no function, extern or local declares
UnkStmts ==
    {Assign(Id("x"), Select(Var("x"), Var("z"), Num(1))),
     Assign(Id("x"), Val(Deref(Var("z")))),
     Assign(Id("x"), Var("y")),
     CallStmt(FunCall(Var("z"), <<Var("x")>>)),
     Return(Some(Var("z")))}
UnkGuards == {Var("x"), Var("z")}

\* ASTs given whole: struct S, struct T { f: int }, extern ext, extern ext2: (int) -> int,
\* fn main and fn foo with the locals above and one of these bodies each.  The only body
\* whose lowering throws is BodyBreak, which holds no Not.
StructT == [name |-> "T", fields |-> <<Decl("f", AInt)>>]
ExternExt2 == [name |-> "ext2", param_types |-> <<AInt>>, rettype |-> AInt]
BodyLoop == <<While(Var("x"), <<If(Var("y"), <<Break>>, None)>>)>>
BodyNot == <<Assign(Id("x"), UnOp("Not", Var("x")))>>
BodyAnd == <<Assign(Id("x"), BinOp("And", Var("x"), Var("y"))), Return(Some(Var("x")))>>
BodyIf == <<If(Var("x"), <<Assign(Id("y"), Num(1))>>, Some(<<Assign(Id("y"), Num(2))>>))>>
BodyCall ==
    <<CallStmt(FunCall(Var("ext"), <<Var("x"), Num(3)>>)), While(Num(1), <<Continue>>)>>
BodyField == <<Assign(FieldAccess(Var("s"), "f"), Num(5))>>
BodyBreak == <<Break>>
Bodies == {BodyLoop, BodyNot, BodyAnd, BodyIf, BodyCall, BodyField, BodyBreak}
FunctionDefT(f, body) ==
    [name |-> f.name, params |-> f.params, rettype |-> f.rettype, locals |-> f.locals,
     body |-> body]
ProgramsT ==
    {[structs |-> <<StructS, StructT>>, externs |-> <<ExternExt, ExternExt2>>,
      functions |-> <<FunctionDefT(FunMain, b1), FunctionDefT(FunFoo, b2)>>] :
        b1 \in Bodies, b2 \in Bodies}

\* the ASTs buildProgram makes of the program j with its struct, extern and function
\* lists reordered
Reorderings(j) ==
    {[structs |-> ss, externs |-> es, functions |-> fs] :
        ss \in {j.structs, Reverse(j.structs)},
        es \in {j.externs, Reverse(j.externs)},
        fs \in {j.functions, Reverse(j.functions)}} \ {j}

\* menu of integer literals
NumStmts ==
    {Assign(Id("x"), Num(n)) : n \in Int32Samples}
    \cup {Assign(Id("x"), UnOp("Neg", Num(n))) : n \in Int32Samples}
    \cup {CallStmt(FunCall(Var("ext"), <<Num(1), Num(-1)>>)), Return(Some(Num(0)))}
NumGuards == {Num(1), Num(IntMin)}
StmtMenu ==
    IF menu = "ctl" THEN CtlStmts ELSE IF menu = "unk" THEN UnkStmts
    ELSE IF menu = "num" THEN NumStmts ELSE ExpStmts
GuardMenu ==
    IF menu = "ctl" THEN CtlGuards ELSE IF menu = "unk" THEN UnkGuards
    ELSE IF menu = "num" THEN NumGuards ELSE ExpGuards

\* -------------------------------------------------------------- the machine
EmptyProgram == [structs |-> EmptyMap, externs |-> EmptyMap, funptrs |-> EmptyMap, functions |-> EmptyMap]

\* the state after construction of the Lowerer (lowerer.hpp member initialisers)
FreshLowerer ==
    /\ m_lir_prog = EmptyProgram
    /\ m_current_fun = ""
    /\ m_tv = <<>>
    /\ m_last_result_id = ""
    /\ m_label_counter = 0
    /\ m_tmp_counter = 0
    /\ m_const_insert_pos = 1
    /\ m_loop_hdr_stack = <<>>
    /\ m_loop_end_stack = <<>>
    /\ stack = <<>>
    /\ pc = "start"
    /\ out = <<>>
    /\ exc = ""
    /\ driver = [calls |-> 0, permuted |-> FALSE, json |-> ast, kept |-> EmptyProgram]
    /\ node = <<>>

Fresh == ast \in Programs /\ FreshLowerer

\* no literal of the first four inputs is INT_MIN or negates to it, so that these runs
\* never consult overflow
Init == Fresh /\ menu = "ctl" /\ fuel = MaxStmts /\ overflow = IntMin
InitE == Fresh /\ menu = "exp" /\ fuel = MaxStmtsE /\ overflow = IntMin
InitU == Fresh /\ menu = "unk" /\ fuel = MaxStmtsU /\ overflow = IntMin
InitT == ast \in ProgramsT /\ FreshLowerer /\ menu = "ast" /\ fuel = 0 /\ overflow = IntMin
InitN == Fresh /\ menu = "num" /\ fuel = MaxStmtsN /\ overflow \in OverflowOutcomes

Top == stack[Len(stack)]
InStmts == pc = "lowering" /\ stack # <<>> /\ Top.kind \in {"FunctionDef", "If", "While"}
Nest == Cardinality({i \in 1..Len(stack) : stack[i].kind \in {"If", "While"}})
\* one more statement was lowered in the Stmts the innermost activation iterates over
Counted == [stack EXCEPT ![Len(stack)].n = @ + 1]

\* the lowerer's registers as the record the helper operators work on
CurL ==
    [tv |-> m_tv, locals |-> m_lir_prog.functions[m_current_fun].locals,
     lc |-> m_label_counter, tc |-> m_tmp_counter, cip |-> m_const_insert_pos,
     res |-> m_last_result_id, ret |-> <<>>, err |-> "",
     hs |-> m_loop_hdr_stack, es |-> m_loop_end_stack]

\* write the registers back; an exception unwinds every activation up to main's catch
Commit(L, stk) ==
    /\ m_tv' = L.tv
    /\ m_lir_prog' = [m_lir_prog EXCEPT !.functions[m_current_fun].locals = L.locals]
    /\ m_label_counter' = L.lc
    /\ m_tmp_counter' = L.tc
    /\ m_const_insert_pos' = L.cip
    /\ m_last_result_id' = L.res
    /\ m_loop_hdr_stack' = L.hs
    /\ m_loop_end_stack' = L.es
    /\ exc' = L.err
    /\ IF L.err # "" THEN pc' = "throwing" /\ stack' = <<>>
       ELSE pc' = pc /\ stack' = stk
    /\ UNCHANGED <<ast, m_current_fun, out, menu, overflow, driver>>

\* what main writes to std::cerr when it returns 1 before the lowering starts: wrong
\* argument count, unreadable file, malformed JSON, buildProgram threw
RejectMessages ==
    {"Usage", "Error: Could not open file", "Error: Failed to parse JSON.",
     "Error: Failed to build AST from JSON."}

\* main steps 1-2 fail: the message goes to std::cerr; return 1
MainReject ==
    /\ pc = "start"
    /\ pc' = "failed"
    /\ exc' \in RejectMessages
    /\ UNCHANGED <<ast, m_lir_prog, m_current_fun, m_tv, m_last_result_id, m_label_counter,
                   m_tmp_counter, m_const_insert_pos, m_loop_hdr_stack, m_loop_end_stack,
                   stack, out, fuel, menu, overflow, driver, node>>

\* main calls Lowerer::lower; visit(Program) steps 1-3
Lower ==
    /\ pc = "start"
    /\ pc' = "lowering"
    /\ m_lir_prog' = ProgramShell(ast)
    /\ stack' = <<[kind |-> "Program", i |-> 1]>>
    /\ node' = <<"Program">>
    /\ UNCHANGED <<ast, m_current_fun, m_tv, m_last_result_id, m_label_counter, m_tmp_counter,
                   m_const_insert_pos, m_loop_hdr_stack, m_loop_end_stack, out, fuel, menu, overflow, driver, exc>>

\* visit(FunctionDef) steps 1-2, entered from step 4 of visit(Program)
VisitFunctionDef ==
    /\ pc = "lowering" /\ stack # <<>> /\ Top.kind = "Program" /\ Top.i <= Len(ast.functions)
    /\ LET n == ast.functions[Top.i] IN
        /\ m_current_fun' = n.name
        /\ m_tv' = <<TvLabel(n.name \o "_entry")>>
        /\ stack' = Append(stack, [kind |-> "FunctionDef", name |-> n.name, n |-> 0])
        /\ node' = <<"FunctionDef", n.name>>
    /\ m_label_counter' = 0
    /\ m_tmp_counter' = 0
    /\ m_const_insert_pos' = 1
    /\ UNCHANGED <<ast, m_lir_prog, m_last_result_id, m_loop_hdr_stack, m_loop_end_stack,
                   pc, out, fuel, menu, overflow, driver, exc>>

VisitAssignStmt ==
    /\ InStmts /\ fuel > 0
    /\ \E n \in {m \in StmtMenu : m[1] = "Assign"} :
        /\ Commit(VisitAssign(n, CurL), Counted)
        /\ node' = n
    /\ fuel' = fuel - 1

VisitCallStmtStmt ==
    /\ InStmts /\ fuel > 0
    /\ \E n \in {m \in StmtMenu : m[1] = "CallStmt"} :
        /\ Commit(VisitCallStmt(n, CurL), Counted)
        /\ node' = n
    /\ fuel' = fuel - 1

VisitReturnStmt ==
    /\ InStmts /\ fuel > 0
    /\ \E n \in {m \in StmtMenu : m[1] = "Return"} :
        /\ Commit(VisitReturn(n, CurL), Counted)
        /\ node' = n
    /\ fuel' = fuel - 1

VisitBreakStmt ==
    /\ InStmts /\ fuel > 0
    /\ Commit(VisitBreak(CurL), Counted)
    /\ node' = <<"Break">>
    /\ fuel' = fuel - 1

VisitContinueStmt ==
    /\ InStmts /\ fuel > 0
    /\ Commit(VisitContinue(CurL), Counted)
    /\ node' = <<"Continue">>
    /\ fuel' = fuel - 1

\* visit(If) up to the call lower_stmt(n->tt)
VisitIf ==
    /\ InStmts /\ fuel > 0 /\ Nest < MaxNest
    /\ \E g \in GuardMenu :
        \E L \in {IfEnter(g, CurL)} :
        /\ Commit(L, Append(Counted, [kind |-> "If", TT |-> L.ret[1], FF |-> L.ret[2],
                                      END |-> L.ret[3], phase |-> "tt", n |-> 0]))
        /\ node' = <<"If", g>>
    /\ fuel' = fuel - 1

\* visit(If): n->tt is done, n->ff has a value
IfThenDoneElse ==
    /\ InStmts /\ Top.kind = "If" /\ Top.phase = "tt" /\ fuel > 0
    /\ Commit(IfElse(Top, CurL), [stack EXCEPT ![Len(stack)].phase = "ff", ![Len(stack)].n = 0])
    /\ UNCHANGED <<fuel, node>>

\* visit(If): n->tt is done, n->ff has no value
IfThenDoneNoElse ==
    /\ InStmts /\ Top.kind = "If" /\ Top.phase = "tt"
    /\ Commit(IfExit(Top, IfElse(Top, CurL)), Front(stack))
    /\ UNCHANGED <<fuel, node>>

\* visit(If): n->ff is done (the parser gives n->ff a value only if it has statements)
IfEnd ==
    /\ InStmts /\ Top.kind = "If" /\ Top.phase = "ff" /\ Top.n > 0
    /\ Commit(IfExit(Top, CurL), Front(stack))
    /\ UNCHANGED <<fuel, node>>

\* visit(While) up to the call lower_stmt(n->body)
VisitWhile ==
    /\ InStmts /\ fuel > 0 /\ Nest < MaxNest
    /\ \E g \in GuardMenu :
        \E L \in {WhileEnter(g, CurL)} :
        /\ Commit(L, Append(Counted, [kind |-> "While", LOOP_HDR |-> L.ret[1], BODY |-> L.ret[2],
                                      LOOP_END |-> L.ret[3], n |-> 0]))
        /\ node' = <<"While", g>>
    /\ fuel' = fuel - 1

\* visit(While): n->body is done
WhileEnd ==
    /\ InStmts /\ Top.kind = "While"
    /\ Commit(WhileExit(Top, CurL), Front(stack))
    /\ UNCHANGED <<fuel, node>>

\* visit(FunctionDef) steps 4-5: the body is done; back in the loop of visit(Program)
FunctionDefEnd ==
    /\ InStmts /\ Top.kind = "FunctionDef"
    /\ m_tv' = ImplicitReturn(m_tv)
    /\ \E cfg \in {build_cfg(ImplicitReturn(m_tv), m_lir_prog.functions[m_current_fun].body, m_current_fun)} :
        /\ m_lir_prog' = [m_lir_prog EXCEPT !.functions[m_current_fun].body = cfg.body]
        /\ IF cfg.ok
           THEN /\ stack' = [Front(stack) EXCEPT ![Len(stack) - 1].i = @ + 1]
                /\ UNCHANGED <<exc, pc>>
           ELSE /\ exc' = "map::at" /\ pc' = "throwing" /\ stack' = <<>>
    /\ UNCHANGED <<ast, m_current_fun, m_last_result_id, m_label_counter, m_tmp_counter,
                   m_const_insert_pos, m_loop_hdr_stack, m_loop_end_stack, out, fuel, menu, overflow, driver, node>>

\* visit(Program) and Lowerer::lower return to main
ProgramEnd ==
    /\ pc = "lowering" /\ stack # <<>> /\ Top.kind = "Program" /\ Top.i > Len(ast.functions)
    /\ pc' = "lowered"
    /\ stack' = <<>>
    /\ UNCHANGED <<ast, m_lir_prog, m_current_fun, m_tv, m_last_result_id, m_label_counter,
                   m_tmp_counter, m_const_insert_pos, m_loop_hdr_stack, m_loop_end_stack,
                   out, fuel, menu, overflow, driver, exc, node>>

\* main step 4: std::cout << *lir_prog; return 0
MainPrint ==
    /\ pc = "lowered"
    /\ out' = PrintProgram(m_lir_prog)
    /\ pc' = "done"
    /\ UNCHANGED <<ast, m_lir_prog, m_current_fun, m_tv, m_last_result_id, m_label_counter,
                   m_tmp_counter, m_const_insert_pos, m_loop_hdr_stack, m_loop_end_stack,
                   stack, fuel, menu, overflow, driver, exc, node>>

\* faulty variant of main's catch: the program lowered so far is printed
MainCatchDumping ==
    /\ pc = "throwing"
    /\ pc' = "failed"
    /\ out' = PrintProgram(m_lir_prog)
    /\ UNCHANGED <<ast, m_lir_prog, m_current_fun, m_tv, m_last_result_id, m_label_counter,
                   m_tmp_counter, m_const_insert_pos, m_loop_hdr_stack, m_loop_end_stack,
                   stack, fuel, menu, overflow, driver, exc, node>>

\* main's catch of std::exception: the message goes to std::cerr; return 1
MainCatch ==
    /\ pc = "throwing"
    /\ pc' = "failed"
    /\ UNCHANGED <<ast, m_lir_prog, m_current_fun, m_tv, m_last_result_id, m_label_counter,
                   m_tmp_counter, m_const_insert_pos, m_loop_hdr_stack, m_loop_end_stack,
                   stack, out, fuel, menu, overflow, driver, exc, node>>

\* ---------------------------------------------- a caller other than main
\* what a null-pointer call does in the builds of the makefile (-fsanitize=address)
\* and without the sanitizer
NullDerefOutcomes == {"AddressSanitizer: SEGV on unknown address", "SIGSEGV"}

\* the caller calls Lowerer::lower on its AST: lower and steps 1-3 of visit(Program)
DriverCall ==
    /\ pc \in {"start", "done"} /\ driver.calls < MaxCalls
    /\ pc' = "lowering"
    /\ driver' = [driver EXCEPT !.calls = @ + 1]
    /\ m_lir_prog' = ProgramShell(ast)
    /\ stack' = <<[kind |-> "Program", i |-> 1]>>
    /\ node' = <<"Program">>
    /\ UNCHANGED <<ast, m_current_fun, m_tv, m_last_result_id, m_label_counter, m_tmp_counter,
                   m_const_insert_pos, m_loop_hdr_stack, m_loop_end_stack, out, fuel, menu, overflow, exc>>

\* the members of the lowerer as the record VisitProgramBodies works on
CurR ==
    [functions |-> m_lir_prog.functions, cur |-> m_current_fun, tv |-> m_tv,
     lc |-> m_label_counter, tc |-> m_tmp_counter, cip |-> m_const_insert_pos,
     res |-> m_last_result_id, hs |-> m_loop_hdr_stack, es |-> m_loop_end_stack,
     err |-> "", i |-> 0]

\* step 4 of visit(Program) on the whole AST, and the return of lower to the caller
DriverBodies ==
    /\ pc = "lowering" /\ stack # <<>> /\ Top.kind = "Program"
    /\ \E R \in {VisitProgramBodies(ast.functions, 1, CurR)} :
        /\ m_lir_prog' = [m_lir_prog EXCEPT !.functions = R.functions]
        /\ m_current_fun' = R.cur
        /\ m_tv' = R.tv
        /\ m_label_counter' = R.lc
        /\ m_tmp_counter' = R.tc
        /\ m_const_insert_pos' = R.cip
        /\ m_last_result_id' = R.res
        /\ m_loop_hdr_stack' = R.hs
        /\ m_loop_end_stack' = R.es
        /\ IF R.err = "" THEN
                /\ pc' = "lowered" /\ exc' = exc
                /\ ast' = MovedProgram(ast, Len(ast.functions) + 1)
           ELSE IF R.err = NullDeref THEN
                /\ pc' = "crashed" /\ exc' \in NullDerefOutcomes
                /\ ast' = ast
           ELSE /\ pc' = "throwing" /\ exc' = R.err
                /\ ast' = MovedProgram(ast, IF R.err = "map::at" THEN R.i + 1 ELSE R.i)
    /\ stack' = <<>>
    /\ node' = <<"Program">>
    /\ UNCHANGED <<out, fuel, menu, overflow, driver>>

\* the caller builds its AST again, from the input with its lists reordered
DriverReorder ==
    /\ pc = "done" /\ driver.calls < MaxCalls /\ ~driver.permuted
    /\ ast' \in Reorderings(driver.json)
    /\ driver' = [driver EXCEPT !.permuted = TRUE, !.kept = m_lir_prog]
    /\ UNCHANGED <<m_lir_prog, m_current_fun, m_tv, m_last_result_id, m_label_counter,
                   m_tmp_counter, m_const_insert_pos, m_loop_hdr_stack, m_loop_end_stack,
                   stack, pc, out, fuel, menu, overflow, exc, node>>

\* the value main returns (-1 while it runs)
ExitCode == IF pc = "done" THEN 0 ELSE IF pc = "failed" THEN 1 ELSE -1

Next ==
    \/ MainReject
    \/ Lower
    \/ VisitFunctionDef
    \/ VisitAssignStmt
    \/ VisitCallStmtStmt
    \/ VisitReturnStmt
    \/ VisitBreakStmt
    \/ VisitContinueStmt
    \/ VisitIf
    \/ IfThenDoneElse
    \/ IfThenDoneNoElse
    \/ IfEnd
    \/ VisitWhile
    \/ WhileEnd
    \/ FunctionDefEnd
    \/ ProgramEnd
    \/ MainPrint
    \/ MainCatch

Spec == Init /\ [][Next]_vars
SpecE == InitE /\ [][Next]_vars
SpecU == InitU /\ [][Next]_vars
SpecN == InitN /\ [][Next]_vars

\* a caller that lowers one AST MaxCalls times and serializes each result
NextT ==
    \/ DriverCall
    \/ DriverBodies
    \/ DriverReorder
    \/ MainPrint
    \/ MainCatch
SpecT == InitT /\ [][NextT]_vars

\* --------------------------------------------------------------- properties
Lowered == pc \in {"lowered", "done"}
Funcs == m_lir_prog.functions
EntryLabel(f) == f \o "_entry"
\* visit(FunctionDef) has returned for m_current_fun: m_tv is the vector its body was built from
FunDone == m_current_fun # "" /\ (Lowered \/ (pc = "lowering" /\ stack # <<>> /\ Top.kind = "Program"))

Targets(t) ==
    CASE t[1] = "Jump" -> {t[2]}
      [] t[1] = "Branch" -> {t[3], t[4]}
      [] OTHER -> {}

RECURSIVE ReachSet(_, _)
ReachSet(body, S) ==
    LET T == S \cup {l \in DOMAIN body : \E b \in S : l \in Targets(body[b].term)}
    IN IF T = S THEN S ELSE ReachSet(body, T)
Reachable(body, entry) == ReachSet(body, {entry} \cap DOMAIN body)

\* the variables an instruction or terminator reads
Operands(it) ==
    CASE it[1] = "Copy" -> {it[3]}
      [] it[1] \in {"Arith", "Cmp"} -> {it[4], it[5]}
      [] it[1] = "Load" -> {it[3]}
      [] it[1] = "Store" -> {it[2], it[3]}
      [] it[1] = "Gfp" -> {it[3]}
      [] it[1] = "Gep" -> {it[3], it[4]}
      [] it[1] = "AllocArray" -> {it[3]}
      [] it[1] = "Call" -> {it[3]} \cup Range(it[4])
      [] it[1] = "Branch" -> {it[2]}
      [] it[1] = "Ret" -> Range(it[2])
      [] OTHER -> {}

BlockItems(bb) == Range(bb.insts) \cup {bb.term}
AllItems(f) == UNION {BlockItems(Funcs[f].body[l]) : l \in DOMAIN Funcs[f].body}

\* C1: after lowering, every block of every function body is reachable from
\* <funcname>_entry along Jump and Branch targets (unreachable blocks were deleted).
C1_EveryBlockReachable ==
    Lowered => \A f \in DOMAIN Funcs :
                  DOMAIN Funcs[f].body \subseteq Reachable(Funcs[f].body, EntryLabel(f))

\* the call a statement node makes at its top, if any
CallOf(n) ==
    IF n # <<>> /\ n[1] = "CallStmt" THEN n[2]
    ELSE IF n # <<>> /\ n[1] = "Assign" /\ n[3][1] = "CallExp" THEN n[3][2]
    ELSE <<>>
SimpleArg(a) == a[1] = "Num" \/ (a[1] = "Val" /\ a[2][1] = "Id")
ArgVar(a) == IF a[1] = "Num" THEN "_const_" \o ToString(a[2]) ELSE a[2][2]
\* the Call instruction the statement just visited has emitted (<<>> if none)
CallJustEmitted ==
    IF pc # "lowering" \/ CallOf(node) = <<>> \/ Len(m_tv) < 2 THEN <<>>
    ELSE IF node[1] = "CallStmt" /\ Last(m_tv)[1] = "Call" THEN Last(m_tv)
    ELSE IF node[1] = "Assign" /\ Last(m_tv)[1] = "Copy" /\ m_tv[Len(m_tv) - 1][1] = "Call"
         THEN m_tv[Len(m_tv) - 1]
    ELSE <<>>

\* C2: the arguments of a call are lowered right to left, and the argument list of
\* the emitted Call holds the result variables in source order [x1, ..., xn].
C2_CallArgsInSourceOrder ==
    (CallJustEmitted # <<>> /\ \A i \in 1..Len(CallOf(node)[3]) : SimpleArg(CallOf(node)[3][i]))
    => /\ CallJustEmitted[4] = [i \in 1..Len(CallOf(node)[3]) |-> ArgVar(CallOf(node)[3][i])]
       /\ (CallOf(node)[3] = <<Num(1), Num(2)>> /\ Len(m_tv) = 5
           => m_tv[2] = Const("_const_2", 2) /\ m_tv[3] = Const("_const_1", 1))

\* C3: lowering FieldAccess(p, f) allocates exactly one inner temporary and emits a Gfp
\* whose struct-id operand is the struct's name: `s.f = 5` as the first statement
\* yields `_inner0 = $gfp s, S, f` followed by `$store _inner0 _const_5`.
C3_FieldAccessNamesStruct ==
    /\ \A i \in 1..Len(m_tv) : m_tv[i][1] = "Gfp" => m_tv[i][4] \in DOMAIN m_lir_prog.structs
    /\ (pc = "lowering" /\ node = Assign(FieldAccess(Var("s"), "f"), Num(5)) /\ Len(m_tv) = 4)
       => /\ m_tv[3] = Gfp("_inner0", "s", "S", "f")
          /\ m_tv[4] = Store("_inner0", "_const_5")
          /\ m_tmp_counter = 1

\* the index of the first line of out from index `from` on that equals `line` (0 if none)
IndexOf(line, from) ==
    LET I == {i \in from..Len(out) : out[i] = line}
    IN IF I = {} THEN 0 ELSE CHOOSE i \in I : \A j \in I : i <= j
\* the line of out that carries block label l of function f
LabelLine(f, l) == IndexOf(l \o ":", IndexOf(FunctionLines(Funcs[f])[1], 1))

\* C4: in the serialized text of every function the block <funcname>_entry comes
\* before every other block, and the other blocks follow in lexicographic order.
C4_EntryBlockPrintedFirst ==
    pc = "done" =>
        \A f \in DOMAIN Funcs :
            LET others == DOMAIN Funcs[f].body \ {EntryLabel(f)}
            IN /\ LabelLine(f, EntryLabel(f)) > 0
               /\ \A l \in others : LabelLine(f, EntryLabel(f)) < LabelLine(f, l)
               /\ \A l1, l2 \in others : StrLess(l1, l2) => LabelLine(f, l1) < LabelLine(f, l2)

\* the block each item of tv goes to in build_cfg ("" for a terminal that is skipped)
RECURSIVE CfgOwner(_, _, _, _)
CfgOwner(tv, i, cur, fname) ==
    IF i > Len(tv) THEN <<>>
    ELSE IF IsLabel(tv[i]) THEN <<tv[i][2]>> \o CfgOwner(tv, i + 1, tv[i][2], fname)
    ELSE IF IsInst(tv[i])
         THEN <<IF cur = "" THEN EntryLabel(fname) ELSE cur>>
              \o CfgOwner(tv, i + 1, IF cur = "" THEN EntryLabel(fname) ELSE cur, fname)
    ELSE <<cur>> \o CfgOwner(tv, i + 1, "", fname)

\* C5: every block of every lowered function has a terminator that is a Jump, a Branch
\* or a Ret (never unset); the block holds that one terminator, and every instruction
\* of the block comes before it in the translation vector the body was built from.
C5_OneTerminatorPerBlock ==
    /\ Lowered => \A f \in DOMAIN Funcs : \A l \in DOMAIN Funcs[f].body :
                      /\ Funcs[f].body[l].term[1] \in TermKinds
                      /\ \A k \in 1..Len(Funcs[f].body[l].insts) : IsInst(Funcs[f].body[l].insts[k])
    /\ FunDone =>
         \E owner \in {CfgOwner(m_tv, 1, "", m_current_fun)} :
            \A l \in DOMAIN Funcs[m_current_fun].body :
               \E t \in 1..Len(m_tv) :
                  /\ IsTerm(m_tv[t]) /\ owner[t] = l /\ m_tv[t] = Funcs[m_current_fun].body[l].term
                  /\ \A i \in 1..Len(m_tv) : owner[i] = l /\ ~IsTerm(m_tv[i]) => i < t
                  /\ \A i \in 1..Len(m_tv) : owner[i] = l /\ IsTerm(m_tv[i]) => i <= t

\* a statement after a return or break: an instruction directly after a terminal in tv
C5_Witness ==
    /\ Lowered
    /\ \E i \in 2..Len(m_tv) : IsInst(m_tv[i]) /\ IsTerm(m_tv[i - 1])
    /\ Cardinality(DOMAIN Funcs[m_current_fun].body) >= 4

\* C6: every target of a Jump and both targets of a Branch in a lowered function
\* name a block of the same function's body.
C6_TargetsExist ==
    Lowered => \A f \in DOMAIN Funcs : \A l \in DOMAIN Funcs[f].body :
                  Targets(Funcs[f].body[l].term) \subseteq DOMAIN Funcs[f].body

C6_Witness ==
    /\ Lowered
    /\ \E f \in DOMAIN Funcs :
          /\ \E l \in DOMAIN Funcs[f].body : Funcs[f].body[l].term[1] = "Branch"
          /\ \E l \in DOMAIN Funcs[f].body : Funcs[f].body[l].term = Jump("and_end2")
          /\ \E l \in DOMAIN Funcs[f].body : Funcs[f].body[l].term = Jump("loop_hdr3")

\* C7 as stated: every variable an instruction or terminator of a lowered function
\* reads is a key of the function's locals or is __NULL.
C7_OperandsAreLocals ==
    Lowered => \A f \in DOMAIN Funcs :
                  \A it \in AllItems(f) : Operands(it) \subseteq DOMAIN Funcs[f].locals \cup {"__NULL"}

\* C7 amended: every variable an instruction or terminator of a lowered function reads
\* is a key of the function's locals, of the program's funptrs or externs, or is __NULL.
C7_OperandsAreDeclared ==
    Lowered => \A f \in DOMAIN Funcs :
                  \A it \in AllItems(f) :
                     Operands(it) \subseteq DOMAIN Funcs[f].locals \cup DOMAIN m_lir_prog.funptrs
                                            \cup DOMAIN m_lir_prog.externs \cup {"__NULL"}

\* a direct call of an extern and of an internal function, and temporaries as operands
C7_Witness ==
    /\ Lowered
    /\ \E f \in DOMAIN Funcs : \E it \in AllItems(f) :
          it[1] = "Call" /\ it[3] \in DOMAIN m_lir_prog.externs /\ it[3] \notin DOMAIN Funcs[f].locals
    /\ \E f \in DOMAIN Funcs : \E it \in AllItems(f) : it[1] = "Copy" /\ it[3] = "_tmp0"

ConstNames ==
    {"_const_" \o ToString(n) : n \in 0..MaxNum} \cup {"_const_n" \o ToString(n) : n \in 1..MaxNum}
\* where in the body of fn the Const instructions with left-hand side c are
ConstDefs(fn, c) ==
    UNION {{<<l, k>> : k \in {k \in 1..Len(fn.body[l].insts) : fn.body[l].insts[k][1] = "Const"
                                                              /\ fn.body[l].insts[k][2] = c}}
           : l \in DOMAIN fn.body}

\* C8: in every lowered function each local named _const_* is the left-hand side of
\* exactly one Const instruction, which is in the entry block, and in the entry block
\* every Const instruction comes before every other instruction.
C8_ConstsLeadEntryBlock ==
    Lowered => \A f \in DOMAIN Funcs :
        /\ \A c \in DOMAIN Funcs[f].locals \cap ConstNames :
              /\ Cardinality(ConstDefs(Funcs[f], c)) = 1
              /\ \A d \in ConstDefs(Funcs[f], c) : d[1] = EntryLabel(f)
        /\ \A j \in 1..Len(Funcs[f].body[EntryLabel(f)].insts) : \A i \in 1..(j - 1) :
              Funcs[f].body[EntryLabel(f)].insts[j][1] = "Const"
              => Funcs[f].body[EntryLabel(f)].insts[i][1] = "Const"

\* a constant first used inside a loop body, after an instruction was already emitted
C8_Witness ==
    /\ Lowered
    /\ \E f \in DOMAIN Funcs :
          /\ Funcs[f].body[EntryLabel(f)].insts = <<Const("_const_1", 1), Copy("x", "y")>>
          /\ "loop_body1" \in DOMAIN Funcs[f].body
          /\ Copy("x", "_const_1") \in Range(Funcs[f].body["loop_body1"].insts)

\* C9: after lowering, funptrs has no entry for main, maps every other internal
\* function to Ptr(Fn(its parameter types in declaration order, its return type)),
\* and has no other keys.
C9_FunptrsAllButMain ==
    Lowered =>
        /\ DOMAIN m_lir_prog.funptrs = {ast.functions[i].name : i \in 1..Len(ast.functions)} \ {"main"}
        /\ \A i \in 1..Len(ast.functions) :
              ast.functions[i].name # "main" =>
                 m_lir_prog.funptrs[ast.functions[i].name] =
                    PtrType(FnType([k \in 1..Len(ast.functions[i].params) |->
                                        convert_type(ast.functions[i].params[k].type)],
                                   convert_type(ast.functions[i].rettype)))

C9_Witness ==
    /\ Lowered
    /\ DOMAIN Funcs = {"main", "foo"}
    /\ m_lir_prog.funptrs = ("foo" :> PtrType(FnType(<<IntType, PtrType(IntType)>>, IntType)))

\* the activation of visit(While) that is innermost on the call stack
InnerWhile ==
    stack[CHOOSE i \in 1..Len(stack) :
             stack[i].kind = "While" /\ \A j \in (i + 1)..Len(stack) : stack[j].kind # "While"]

\* C10: a Break lowers to a Jump to the end label, and a Continue to a Jump to the
\* header label, of the innermost enclosing while, also after an inner loop of that
\* while has been lowered completely.
C10_BreakContinueInnermost ==
    [][(pc' = "lowering" /\ fuel' = fuel - 1 /\ node' \in {<<"Break">>, <<"Continue">>})
       => /\ \E i \in 1..Len(stack) : stack[i].kind = "While"
          /\ m_tv' = Append(m_tv, Jump(IF node' = <<"Break">> THEN InnerWhile.LOOP_END
                                       ELSE InnerWhile.LOOP_HDR))]_vars

\* a Break in the outer loop's body after an inner loop was lowered completely
C10_Witness ==
    /\ pc = "lowering" /\ node = <<"Break">>
    /\ Len(stack) = 3 /\ Top.kind = "While" /\ Top.LOOP_END = "loop_end2"
    /\ TvLabel("loop_end5") \in Range(m_tv)
    /\ Last(m_tv) = Jump("loop_end2")

\* C11: a Break or a Continue outside every while loop makes the lowering fail (the
\* exception reaches main's catch) and appends no Jump to the translation vector.
C11_BreakOutsideLoopFails ==
    [][(fuel' = fuel - 1 /\ node' \in {<<"Break">>, <<"Continue">>}
        /\ \A i \in 1..Len(stack) : stack[i].kind # "While")
       => /\ pc' = "throwing"
          /\ exc' = (IF node' = <<"Break">> THEN "Break statement outside of loop"
                     ELSE "Continue statement outside of loop")
          /\ m_tv' = m_tv]_vars

\* a Break outside every loop, after another statement, has failed the run
C11_Witness ==
    /\ pc = "failed" /\ node = <<"Break">> /\ exc = "Break statement outside of loop"
    /\ m_loop_end_stack = <<>> /\ Len(m_tv) > 1
    /\ \A i \in 1..Len(m_tv) : m_tv[i][1] # "Jump"

\* C12: typeof of a name that is no local, funptr or extern and is not __NULL fails
\* the lowering: a statement whose lowering asks for the type of the undeclared z
\* never completes.
C12_UnknownIdentifierFails ==
    node \in {Assign(Id("x"), Select(Var("x"), Var("z"), Num(1))), Assign(Id("x"), Val(Deref(Var("z"))))}
    => pc \in {"throwing", "failed"}

\* C13: a run either succeeds, writes the whole LIR program to standard output and
\* returns 0, or fails, writes nothing to standard output and returns non-zero;
\* standard output never holds a part of the program.
C13_DumpOrError ==
    /\ pc = "done" => /\ out = PrintProgram(m_lir_prog) /\ out # <<>> /\ ExitCode = 0
                      /\ \A f \in DOMAIN Funcs :
                            /\ IndexOf(FunctionLines(Funcs[f])[1], 1) > 0
                            /\ \A l \in DOMAIN Funcs[f].body : LabelLine(f, l) > 0
    /\ pc # "done" => out = <<>>
    /\ pc = "failed" => ExitCode # 0 /\ exc # ""

\* the lowering failed after one function had been lowered completely
C13_Witness ==
    /\ pc = "failed" /\ out = <<>> /\ exc = "Continue statement outside of loop"
    /\ \E f \in DOMAIN Funcs : DOMAIN Funcs[f].body # {}

\* the locals of the function being lowered
CurLocals == m_lir_prog.functions[m_current_fun].locals
\* the items the step just taken has appended to the translation vector
Appended == SubSeq(m_tv', Len(m_tv) + 1, Len(m_tv'))
\* the step just taken has lowered the assignment n completely
JustAssigned(n) == pc' = "lowering" /\ fuel' = fuel - 1 /\ node' = n

\* C14: Select never types its result from a branch that lowers to __NULL.  With tt = nil
\* and ff lowering to w # __NULL the result is one fresh _tmp of type typeof(w), the true
\* branch holds no Copy and the false branch ends in Copy(result, w); with both branches
\* nil the result is __NULL and neither a temporary nor a Copy is created.
C14_SelectNilBranches ==
    [][/\ \A n \in {Assign(Id("p"), Select(Var("x"), NilExp, Var("p"))),
                    Assign(Id("s"), Select(Var("x"), NilExp, NewSingle(AStruct("S"))))} :
            JustAssigned(n) =>
                LET S == Appended
                    k == Len(S)
                    r == "_tmp" \o ToString(m_tmp_counter' - 1)
                    w == S[k - 3][3]
                    locals2 == m_lir_prog'.functions[m_current_fun].locals
                IN /\ m_tv' = m_tv \o S /\ k >= 8
                   /\ S[1] = Branch("x", "if_true" \o ToString(m_label_counter),
                                    "if_false" \o ToString(m_label_counter + 1))
                   /\ S[2] = TvLabel(S[1][3])
                   /\ S[3] = Jump("if_end" \o ToString(m_label_counter + 2))
                   /\ S[4] = TvLabel(S[1][4])
                   /\ S[k - 3] = Copy(r, w) /\ w # "__NULL"
                   /\ S[k - 2] = S[3] /\ S[k - 1] = TvLabel(S[3][2])
                   /\ S[k] = Copy(n[2][2], r)
                   /\ Cardinality({i \in 1..k : S[i][1] = "Copy" /\ S[i][2] = r}) = 1
                   /\ r \notin DOMAIN CurLocals /\ r \in DOMAIN locals2
                   /\ locals2[r] = locals2[w] /\ locals2[r] = locals2[n[2][2]]
                   /\ \A v \in DOMAIN locals2 \ DOMAIN CurLocals : locals2[v] # NilType
       /\ JustAssigned(Assign(Id("p"), Select(Var("x"), NilExp, NilExp))) =>
            /\ Appended = <<Branch("x", "if_true" \o ToString(m_label_counter),
                                    "if_false" \o ToString(m_label_counter + 1)),
                            TvLabel("if_true" \o ToString(m_label_counter)),
                            Jump("if_end" \o ToString(m_label_counter + 2)),
                            TvLabel("if_false" \o ToString(m_label_counter + 1)),
                            Jump("if_end" \o ToString(m_label_counter + 2)),
                            TvLabel("if_end" \o ToString(m_label_counter + 2)),
                            Copy("p", "__NULL")>>
            /\ m_tv' = m_tv \o Appended
            /\ m_last_result_id' = "__NULL"
            /\ m_tmp_counter' = m_tmp_counter
            /\ m_lir_prog' = m_lir_prog]_vars

\* both cases in one function: `p = x ? nil : nil` followed by `p = x ? nil : p`
C14_Witness ==
    /\ pc = "lowering" /\ node = Assign(Id("p"), Select(Var("x"), NilExp, Var("p")))
    /\ Copy("p", "__NULL") \in Range(m_tv)
    /\ Last(m_tv) = Copy("p", "_tmp0")
    /\ CurLocals["_tmp0"] = PtrType(IntType)

\* the step is the second or a later call of lower on an AST the caller did not rebuild
SameAstAgain == driver.calls >= 2 /\ ~driver.permuted

\* C15: two successive calls of lower on the same AST give LIR programs with the same
\* serialization, also for ASTs that hold UnOp(Not, e).
C15_LoweringTwiceSameText ==
    [][SameAstAgain => /\ (pc = "lowering" => pc' = "lowered")
                       /\ (pc = "lowered" => out' = out)]_vars

\* the AST is the one the caller rebuilt from the reordered input, not yet lowered
Rebuilt == driver.permuted /\ ast \in Reorderings(driver.json)

\* C16: reordering the struct, extern and function lists of an AST changes neither the
\* lowered LIR program nor its serialization; a function's body does not depend on the
\* functions lowered before it.
C16_ListOrderIrrelevant ==
    [][/\ (~driver.permuted /\ driver'.permuted) => ProgramShell(ast') = ProgramShell(driver.json)
       /\ (Rebuilt /\ pc = "lowering") => pc' = "lowered" /\ m_lir_prog' = driver.kept
       /\ (driver.permuted /\ pc = "lowered") => out' = out /\ out' # <<>>]_vars

\* foo, lowered before main after the reordering, and main both create labels
C16_Witness ==
    /\ pc = "done" /\ driver.permuted /\ driver.calls = 2
    /\ ast.functions[1].name = "foo" /\ ast.structs[1].name = "T"
    /\ "loop_end2" \in DOMAIN Funcs["main"].body
    /\ "if_end2" \in DOMAIN Funcs["foo"].body

\* C17: lowering leaves the AST unchanged: after lower returns every node, in particular
\* the operand of every UnOp(Not, e), is what it was before the call.
C17_AstUnchanged ==
    [][pc = "lowering" => ast' = ast]_vars

\* the functions whose body is `while (x) { if (y) { break; } }`
LoopFuns == {ast.functions[i].name : i \in {i \in 1..Len(ast.functions) : ast.functions[i].body = BodyLoop}}

\* C18 as stated: lowering `while (x) { if (y) { break; } }` as the first statement yields
\* the blocks loop_hdr0, loop_body1 and loop_end2, the break path ends in $jump loop_end2,
\* and the terminator of loop_body1 is $jump loop_hdr0.
C18_LoopBodyJumpsToHeader ==
    Lowered => \A f \in LoopFuns :
        /\ {"loop_hdr0", "loop_body1", "loop_end2"} \subseteq DOMAIN Funcs[f].body
        /\ \E l \in DOMAIN Funcs[f].body \ {"loop_hdr0"} : Funcs[f].body[l].term = Jump("loop_end2")
        /\ Funcs[f].body["loop_body1"].term = Jump("loop_hdr0")

\* C18 amended: the blocks loop_hdr0, loop_body1 and loop_end2 exist, the break path (block
\* if_true3) ends in $jump loop_end2, loop_body1 ends in $branch y if_true3 if_false4, and
\* the jump back to loop_hdr0 is the terminator of if_end5, the last block of the body.
C18_LoopBackEdgeFromIfEnd ==
    Lowered => \A f \in LoopFuns :
        /\ {"loop_hdr0", "loop_body1", "loop_end2"} \subseteq DOMAIN Funcs[f].body
        /\ Funcs[f].body["if_true3"].term = Jump("loop_end2")
        /\ Funcs[f].body["loop_body1"].term = Branch("y", "if_true3", "if_false4")
        /\ Funcs[f].body["if_end5"].term = Jump("loop_hdr0")
        /\ Funcs[f].body["loop_hdr0"].term = Branch("x", "loop_body1", "loop_end2")

\* main with that body has been lowered
C18_Witness ==
    /\ Lowered /\ "main" \in LoopFuns /\ driver.calls = 1
    /\ DOMAIN Funcs["main"].body =
          {"main_entry", "loop_hdr0", "loop_body1", "loop_end2", "if_true3", "if_false4", "if_end5"}

InnerNames == {"_inner" \o ToString(n) : n \in 0..MaxNum}
TmpNames == {"_tmp" \o ToString(n) : n \in 0..MaxNum}
\* the names the AST declares in function f
DeclaredNames(f) ==
    LET fs == {i \in 1..Len(ast.functions) : ast.functions[i].name = f}
    IN UNION {{d.name : d \in Range(ast.functions[i].params) \cup Range(ast.functions[i].locals)} : i \in fs}

\* C19: in every lowered function each local _inner<N> is the left-hand side of a Gfp or
\* Gep, the left-hand side of every Gfp and Gep is an _inner<N> local, and every other
\* fresh temporary is named _tmp<N>.
C19_InnerOnlyForGfpGep ==
    Lowered => \A f \in DOMAIN Funcs :
        /\ \A v \in DOMAIN Funcs[f].locals \cap InnerNames :
              \E it \in AllItems(f) : it[1] \in {"Gfp", "Gep"} /\ it[2] = v
        /\ \A it \in AllItems(f) :
              it[1] \in {"Gfp", "Gep"} => it[2] \in DOMAIN Funcs[f].locals \cap InnerNames
        /\ DOMAIN Funcs[f].locals \ (DeclaredNames(f) \cup ConstNames \cup InnerNames) \subseteq TmpNames

\* C20: from the same lowerer state, BinOp(And, l, r) lowers to the same translation
\* vector, locals and result variable as Select(l, r, Num(0)).
C20_AndIsSelect ==
    InStmts => \A l \in {Var("x"), Num(1)}, r \in {Var("y"), Num(1)} :
                  lower_exp(BinOp("And", l, r), CurL) = lower_exp(Select(l, r, Num(0)), CurL)

\* ------------------------------------------------------- requests of literals
\* the literal values a node passes to const_var, in the order of the calls
RECURSIVE Requests(_)
RECURSIVE RequestsOfArgs(_, _)
RequestsOfArgs(args, i) ==
    IF i = 0 THEN <<>> ELSE Requests(args[i]) \o RequestsOfArgs(args, i - 1)
Requests(n) ==
    CASE n[1] = "Num" -> <<n[2]>>
      [] n[1] = "Val" -> IF n[2][1] = "Id" THEN <<>> ELSE Requests(n[2])
      [] n[1] = "Select" -> Requests(n[2]) \o Requests(n[3]) \o Requests(n[4])
      [] n[1] = "UnOp" ->
            IF n[2] = "Neg"
            THEN IF n[3][1] = "Num" THEN <<-n[3][2]>> ELSE <<0>> \o Requests(n[3])
            ELSE Requests(n[3]) \o <<0>>
      [] n[1] = "BinOp" ->
            Requests(n[3]) \o Requests(n[4]) \o (IF n[2] = "And" THEN <<0>> ELSE <<>>)
      [] n[1] = "NewArray" -> Requests(n[3])
      [] n[1] = "CallExp" -> Requests(n[2])
      [] n[1] = "FunCall" -> RequestsOfArgs(n[3], Len(n[3])) \o Requests(n[2])
      [] n[1] = "Deref" -> Requests(n[2])
      [] n[1] = "ArrayAccess" -> Requests(n[2]) \o Requests(n[3])
      [] n[1] = "FieldAccess" -> Requests(n[2])
      [] n[1] = "Assign" ->
            IF n[2][1] = "Id" THEN Requests(n[3]) ELSE Requests(n[2]) \o Requests(n[3])
      [] n[1] = "CallStmt" -> Requests(n[2])
      [] n[1] = "Return" -> IF n[2] = None THEN <<>> ELSE Requests(n[2][1])
      [] n[1] \in {"If", "While"} -> Requests(n[2])
      [] OTHER -> <<>>

\* s without the later occurrences of its elements
RECURSIVE FirstUses(_)
FirstUses(s) ==
    IF s = <<>> THEN <<>>
    ELSE LET f == FirstUses(Front(s))
         IN IF Last(s) \in Range(f) THEN f ELSE Append(f, Last(s))

IsConst(it) == it[1] = "Const"
ConstItems(tv) == SelectSeq(tv, IsConst)
ConstVals(tv) == [i \in 1..Len(ConstItems(tv)) |-> ConstItems(tv)[i][3]]

\* C21: within one function the first request for a literal n inserts one Const and a
\* later request for n inserts nothing; the Consts sit contiguously directly after the
\* entry label of the translation vector, in the order in which their values were first
\* requested, whatever was appended to the vector before.
C21_ConstsInRequestOrder ==
    [][(InStmts /\ pc' = "lowering") =>
         LET asked == IF fuel' < fuel THEN Requests(node') ELSE <<>>
             items == ConstItems(m_tv')
         IN /\ ConstVals(m_tv') = FirstUses(ConstVals(m_tv) \o asked)
            /\ SubSeq(m_tv', 2, Len(items) + 1) = items
            /\ m_tv'[1] = TvLabel(m_current_fun \o "_entry")
            /\ \A i, j \in 1..Len(items) : items[i][2] = items[j][2] => i = j]_vars

\* 3 was requested by the first statement; the second requested 3 twice more and then 0,
\* whose Const went in behind that of 3 and before the items of both statements
C21_Witness ==
    /\ InStmts /\ fuel = 0
    /\ node = Assign(Id("x"), BinOp("And", BinOp("Lt", Var("x"), Num(3)), Num(3)))
    /\ Len(m_tv) > 10
    /\ SubSeq(m_tv, 1, 3) = <<TvLabel(m_current_fun \o "_entry"), Const("_const_3", 3), Const("_const_0", 0)>>
    /\ Cardinality({i \in 1..Len(m_tv) : m_tv[i][1] = "Copy" /\ m_tv[i][3] = "_const_3"}) = 2

\* the step is steps 4-5 of visit(FunctionDef)
BodyDone == InStmts /\ Top.kind = "FunctionDef" /\ fuel' = fuel
\* the items of tv that are not labels
NonLabels(tv) == {i \in 1..Len(tv) : tv[i][1] # "Label"}
\* the last item of tv that is not a label is a Ret
EndsInRet(tv) ==
    \E k \in NonLabels(tv) : tv[k][1] = "Ret" /\ \A i \in NonLabels(tv) : i <= k

\* C22 as stated: at the end of lowering a function body Ret(none) is appended to the
\* translation vector if no Ret terminator exists in it, and is not appended otherwise.
C22_RetAppendedIffNoRet ==
    [][BodyDone => m_tv' = IF \E i \in 1..Len(m_tv) : m_tv[i][1] = "Ret"
                           THEN m_tv ELSE Append(m_tv, Ret(None))]_vars

\* C22 amended: at the end of lowering a function body Ret(none) is appended to the
\* translation vector unless the last item of the vector that is not a label is a Ret;
\* a Ret further up in the vector does not prevent the append.
C22_RetAppendedUnlessEndsInRet ==
    [][BodyDone => m_tv' = IF EndsInRet(m_tv) THEN m_tv ELSE Append(m_tv, Ret(None))]_vars

\* the body ended with the END label of an if whose branch returns: Ret(none) was appended
C22_Witness ==
    /\ pc = "lowering" /\ stack # <<>> /\ Top.kind = "Program" /\ Len(m_tv) > 3
    /\ m_tv[Len(m_tv)] = Ret(None)
    /\ m_tv[Len(m_tv) - 1] = TvLabel("if_end2")
    /\ \E i \in 1..(Len(m_tv) - 1) : m_tv[i][1] = "Ret"

\* ------------------------------------------------------- what a step appends
NotConst(it) == it[1] # "Const"
\* the translation vector without the Consts, which const_var inserts at the top
Pushed(tv) == SelectSeq(tv, NotConst)
\* the step pushes items onto the back of the translation vector and removes none
PushesOnly ==
    /\ Len(Pushed(m_tv')) >= Len(Pushed(m_tv))
    /\ SubSeq(Pushed(m_tv'), 1, Len(Pushed(m_tv))) = Pushed(m_tv)
\* the items the step pushes
Grown == SubSeq(Pushed(m_tv'), Len(Pushed(m_tv)) + 1, Len(Pushed(m_tv')))
\* the items lowering the expression g pushes, from the lowerer state L
ItemsOf(g, L) ==
    SubSeq(Pushed(lower_exp(g, L).tv), Len(Pushed(L.tv)) + 1, Len(Pushed(lower_exp(g, L).tv)))

\* C23: lowering If(g, tt, ff?) appends, in this order, the items of g, Branch(y, TT, FF),
\* Label(TT), the items of tt, Jump(END), Label(FF), the items of ff when present,
\* Jump(END), Label(END), with TT, FF, END three consecutively numbered fresh labels; the
\* Jump(END) behind the then-branch is appended whatever the then-branch ended with.
C23_IfItemsInOrder ==
    [][(InStmts /\ pc' = "lowering") =>
        /\ PushesOnly
        \* visit(If) begins: the guard, the Branch and Label(TT)
        /\ (fuel' < fuel /\ node'[1] = "If") =>
              LET fr == stack'[Len(stack')]
                  L0 == [CurL EXCEPT !.lc = @ + 3]
              IN /\ Len(stack') = Len(stack) + 1 /\ fr.kind = "If"
                 /\ fr.TT = "if_true" \o ToString(m_label_counter)
                 /\ fr.FF = "if_false" \o ToString(m_label_counter + 1)
                 /\ fr.END = "if_end" \o ToString(m_label_counter + 2)
                 /\ m_label_counter' >= m_label_counter + 3
                 /\ \A l \in {fr.TT, fr.FF, fr.END} : TvLabel(l) \notin Range(m_tv)
                 /\ Grown = ItemsOf(node'[2], L0)
                              \o <<Branch(lower_exp(node'[2], L0).res, fr.TT, fr.FF), TvLabel(fr.TT)>>
        \* the then-branch is done
        /\ (fuel' = fuel /\ Top.kind = "If" /\ Top.phase = "tt") =>
              IF Len(stack') = Len(stack)
              THEN /\ m_tv' = m_tv \o <<Jump(Top.END), TvLabel(Top.FF)>>
                   /\ stack'[Len(stack')].phase = "ff"
              ELSE /\ m_tv' = m_tv \o <<Jump(Top.END), TvLabel(Top.FF), Jump(Top.END), TvLabel(Top.END)>>
                   /\ stack' = Front(stack)
        \* the else-branch is done
        /\ (fuel' = fuel /\ Top.kind = "If" /\ Top.phase = "ff") =>
              /\ m_tv' = m_tv \o <<Jump(Top.END), TvLabel(Top.END)>>
              /\ stack' = Front(stack)]_vars

\* `if (1) { return ...; } else { x = ...; }`, the first if of the function, lowered completely
C23_Witness ==
    /\ InStmts /\ Top.kind = "FunctionDef" /\ fuel = 0 /\ Len(m_tv) >= 9
    /\ m_tv[2] = Const("_const_1", 1)
    /\ \E i \in 3..(Len(m_tv) - 6) :
          /\ m_tv[i] = Branch("_const_1", "if_true0", "if_false1")
          /\ m_tv[i + 1] = TvLabel("if_true0")
          /\ m_tv[i + 2][1] = "Ret"
          /\ m_tv[i + 3] = Jump("if_end2")
          /\ m_tv[i + 4] = TvLabel("if_false1")
          /\ m_tv[Len(m_tv) - 2][1] = "Copy"
          /\ m_tv[Len(m_tv) - 1] = Jump("if_end2")
          /\ m_tv[Len(m_tv)] = TvLabel("if_end2")

\* the assignments of the menu whose right-hand side is an Or
OrAssigns == {n \in ExpStmts : n[1] = "Assign" /\ n[3][1] = "BinOp" /\ n[3][2] = "Or"}

\* C24: BinOp(Or, l, r) lowers l to x, allocates one fresh non-inner Int temporary y,
\* emits Copy(y, x), Branch(y, END, FF), Label(FF), lowers r to z, emits Copy(y, z),
\* Jump(END), Label(END) and returns y.  What lowering r pushes lies between Label(FF) and
\* Copy(y, z) only; nothing else is pushed, and the Consts stay in the cluster at the top.
C24_OrShortCircuits ==
    [][\A n \in OrAssigns : JustAssigned(n) =>
        LET FF == "or_false" \o ToString(m_label_counter)
            END == "or_end" \o ToString(m_label_counter + 1)
            L0 == [CurL EXCEPT !.lc = @ + 2]
            Ll == lower_exp(n[3][3], L0)
            x == Ll.res
            y == "_tmp" \o ToString(Ll.tc)
            Lf == [Ll EXCEPT !.tc = @ + 1, !.locals = Put(@, y, IntType),
                             !.tv = @ \o <<Copy(y, x), Branch(y, END, FF), TvLabel(FF)>>]
            Lr == lower_exp(n[3][4], Lf)
            locals2 == m_lir_prog'.functions[m_current_fun].locals
        IN /\ PushesOnly
           /\ Grown = ItemsOf(n[3][3], L0) \o <<Copy(y, x), Branch(y, END, FF), TvLabel(FF)>>
                        \o ItemsOf(n[3][4], Lf)
                        \o <<Copy(y, Lr.res), Jump(END), TvLabel(END)>> \o <<Copy(n[2][2], y)>>
           /\ m_last_result_id' = y
           /\ y \notin DOMAIN CurLocals /\ y \in DOMAIN locals2 /\ locals2[y] = IntType
           /\ m_tmp_counter' = Lr.tc /\ m_label_counter' = Lr.lc
           /\ Cardinality({i \in 1..Len(Grown) : Grown[i] = TvLabel(FF)}) = 1
           /\ \A i \in 1..Len(m_tv') : m_tv'[i][1] = "Const" => i \in 2..m_const_insert_pos']_vars

\* `x = x < 3 || y + 1`: both operands push items
C24_Witness ==
    /\ InStmts /\ node = Assign(Id("x"), BinOp("Or", BinOp("Lt", Var("x"), Num(3)), BinOp("Add", Var("y"), Num(1))))
    /\ \E i \in 1..(Len(m_tv) - 8) :
          /\ m_tv[i][1] = "Cmp" /\ m_tv[i + 1][1] = "Copy" /\ m_tv[i + 1][3] = m_tv[i][2]
          /\ m_tv[i + 2][1] = "Branch" /\ m_tv[i + 2][2] = m_tv[i + 1][2]
          /\ m_tv[i + 3] = TvLabel(m_tv[i + 2][4])
          /\ m_tv[i + 4][1] = "Arith"
          /\ m_tv[i + 5] = Copy(m_tv[i + 1][2], m_tv[i + 4][2])
          /\ m_tv[i + 6] = Jump(m_tv[i + 2][3])
          /\ m_tv[i + 7] = TvLabel(m_tv[i + 2][3])
          /\ m_tv[i + 8] = Copy("x", m_tv[i + 1][2])
          /\ Len(m_tv) = i + 8

\* the assignments of the menu `x = Val(place)` whose place is not an Id
ValAssigns ==
    {n \in ExpStmts : n[1] = "Assign" /\ n[2][1] = "Id" /\ n[3][1] = "Val" /\ n[3][2][1] # "Id"}

Declared(f) ==
    UNION {Range(ast.functions[i].params) \cup Range(ast.functions[i].locals) :
             i \in {j \in 1..Len(ast.functions) : ast.functions[j].name = f}}

\* C26: while a function is lowered its locals map only grows: no key is removed, and the
\* type recorded for a parameter, a declared local, a temporary or a constant holder is
\* not changed by a later step.
C26_LocalsOnlyGrow ==
    [][\A f \in DOMAIN Funcs :
          /\ f \in DOMAIN m_lir_prog'.functions
          /\ \A v \in DOMAIN Funcs[f].locals :
                /\ v \in DOMAIN m_lir_prog'.functions[f].locals
                /\ m_lir_prog'.functions[f].locals[v] = Funcs[f].locals[v]
          /\ \A d \in Declared(f) : Funcs[f].locals[d.name] = convert_type(d.type)
          \* every temporary and constant holder created so far in the current function,
          \* also one created and released within the step, is a key afterwards
          /\ (f = m_current_fun' /\ pc' \in {"lowering", "throwing"}) =>
                LET locals2 == m_lir_prog'.functions[f].locals
                IN /\ \A k \in 0..(m_tmp_counter' - 1) :
                         \/ "_tmp" \o ToString(k) \in DOMAIN locals2
                         \/ "_inner" \o ToString(k) \in DOMAIN locals2
                   /\ \A i \in 1..Len(m_tv') :
                         m_tv'[i][1] = "Const" =>
                            m_tv'[i][2] \in DOMAIN locals2 /\ locals2[m_tv'[i][2]] = IntType]_vars

\* two statements have added inner and non-inner temporaries and constant holders of
\* several types to the declared names
C26_Witness ==
    /\ InStmts /\ fuel = 0
    /\ {"_inner0", "_inner1", "_tmp2", "_const_5"} \subseteq DOMAIN CurLocals
    /\ CurLocals["_inner0"] # CurLocals["_inner1"]
    /\ \E v \in DOMAIN CurLocals \cap TmpNames : CurLocals[v] = IntType /\ v # "_tmp2"
    /\ \A d \in Declared(m_current_fun) : CurLocals[d.name] = convert_type(d.type)
    /\ Cardinality(DOMAIN CurLocals) >= Cardinality(Declared(m_current_fun)) + 5

\* the decimal numeral of |n| for an int n
AbsNumeral(n) == IF n = IntMin THEN "2147483648" ELSE IF n < 0 THEN ToString(-n) ELSE ToString(n)
\* the holder the naming rule gives the literal n
HolderName(n) == IF n >= 0 THEN "_const_" \o ToString(n) ELSE "_const_n" \o AbsNumeral(n)
\* the holder the naming rule gives the literal -n
NegatedHolderName(n) == IF n > 0 THEN "_const_n" \o ToString(n) ELSE "_const_" \o AbsNumeral(n)
\* the translation vector holds the Const that gives holder h the value n
HasConst(tv, h, n) == \E i \in 1..Len(tv) : tv[i] = Const(h, n)

\* C27: for every 32-bit literal n, const(n) names the holder _const_<n> when n >= 0 and
\* _const_n<|n|> when n < 0, distinct literals get distinct holders, and UnOp(Neg, Num(n))
\* yields the holder of -n and no Arith, also at the smallest int, where -n overflows.
C27_HolderNames ==
    [][\A n \in Int32Samples :
         /\ JustAssigned(Assign(Id("x"), Num(n))) =>
               /\ m_last_result_id' = HolderName(n)
               /\ HasConst(m_tv', HolderName(n), n)
               /\ Grown = <<Copy("x", HolderName(n))>>
         /\ JustAssigned(Assign(Id("x"), UnOp("Neg", Num(n)))) =>
               /\ m_last_result_id' = NegatedHolderName(n)
               /\ n # IntMin => HasConst(m_tv', NegatedHolderName(n), -n)
               /\ Grown = <<Copy("x", NegatedHolderName(n))>>
         /\ \A i, j \in 1..Len(m_tv') :
               (m_tv'[i][1] = "Const" /\ m_tv'[j][1] = "Const" /\ m_tv'[i][2] = m_tv'[j][2]) => i = j]_vars

\* the position in tv of Label(l)
LabelAt(tv, l) == CHOOSE i \in 1..Len(tv) : tv[i] = TvLabel(l)
\* the position that ends the run of instructions behind position i: the next label or
\* terminal, or the end of tv
RunEnd(tv, i) ==
    CHOOSE k \in (i + 1)..(Len(tv) + 1) :
        /\ k <= Len(tv) => tv[k][1] \in {"Label", "Jump", "Branch", "Ret"}
        /\ \A j \in (i + 1)..(k - 1) : tv[j][1] \notin {"Label", "Jump", "Branch", "Ret"}

\* C28: in the CFG builder a block's terminator, once set, is never replaced, and the items
\* of the translation vector between a terminal and the next label change neither the
\* instructions nor the terminator of any block: each block holds the instructions from its
\* label up to the first terminal behind it, and that terminal.
C28_ItemsBehindTerminalDropped ==
    FunDone => \A l \in DOMAIN Funcs[m_current_fun].body :
        LET i == LabelAt(m_tv, l)
            k == RunEnd(m_tv, i)
            bb == Funcs[m_current_fun].body[l]
        IN /\ \E j \in 1..Len(m_tv) : m_tv[j] = TvLabel(l)
           /\ bb.insts = SubSeq(m_tv, i + 1, k - 1)
           /\ (k <= Len(m_tv) /\ m_tv[k][1] # "Label") => bb.term = m_tv[k]

\* the activations of visit(While), outermost first
WhileFrames == SelectSeq(stack, LAMBDA fr : fr.kind = "While")

\* C29: at every point of lowering m_loop_hdr_stack and m_loop_end_stack have the same
\* length, the number of while loops being lowered (they hold the header and end labels of
\* these loops, outermost first), and both are empty whenever the lowering of a function
\* starts and whenever it finishes without error.
C29_LoopStacksMatchLoops ==
    /\ pc = "lowering" =>
          /\ Len(m_loop_hdr_stack) = Len(m_loop_end_stack)
          /\ Len(m_loop_hdr_stack) = Len(WhileFrames)
          /\ \A i \in 1..Len(WhileFrames) :
                /\ m_loop_hdr_stack[i] = WhileFrames[i].LOOP_HDR
                /\ m_loop_end_stack[i] = WhileFrames[i].LOOP_END
          /\ (stack # <<>> /\ Top.kind \in {"Program", "FunctionDef"}) =>
                m_loop_hdr_stack = <<>> /\ m_loop_end_stack = <<>>
    /\ Lowered => m_loop_hdr_stack = <<>> /\ m_loop_end_stack = <<>>

\* the first statement of a while that is the first statement of the function's first while
C29_Witness ==
    /\ InStmts /\ Top.kind = "While" /\ Len(WhileFrames) = 2
    /\ m_loop_hdr_stack = <<"loop_hdr0", "loop_hdr3">>
    /\ m_loop_end_stack = <<"loop_end2", "loop_end5">>

\* the prefixes handed to new_label
LabelStems ==
    {"if_true", "if_false", "if_end", "loop_hdr", "loop_body", "loop_end",
     "and_true", "and_false", "and_end", "or_false", "or_end"}

\* the labels placed in a translation vector
LabelsIn(tv) == {tv[i][2] : i \in {j \in 1..Len(tv) : IsLabel(tv[j])}}

\* the numbers of the temporaries (inner or non-inner) that are keys of a locals map
TempNumbers(locals) ==
    {k \in 0..MaxNum : "_tmp" \o ToString(k) \in DOMAIN locals
                       \/ "_inner" \o ToString(k) \in DOMAIN locals}

\* the labels held by the activations of visit(If) and visit(While)
PendingLabels(stk) ==
    UNION {IF stk[i].kind = "If" THEN {stk[i].TT, stk[i].FF, stk[i].END}
           ELSE IF stk[i].kind = "While" THEN {stk[i].LOOP_HDR, stk[i].BODY, stk[i].LOOP_END}
           ELSE {} : i \in 1..Len(stk)}

====
